---- MODULE Spec2Model ----
(***************************************************************************)
(* Model of mark_performance:                                              *)
(*   src/src/cache_manager.py  CacheManager (disk cache, TTL, eviction)    *)
(*   src/src/riot_api.py       RiotAPI (sessions, retry / backoff, lookups)*)
(*   src/src/ai_analyzer.py    AIAnalyzer._send_ai_request                 *)
(*   src/src/wechat_sender.py  WeChatSender._send_to_wechat                *)
(*   src/src/game_analyzer.py  GameAnalyzer._analyze_teams, _calculate_kda,*)
(*                             _calculate_performance_score                *)
(*                                                                         *)
(* The specifications share the variables:                                 *)
(*   KeySpec      the pure function CacheManager._get_cache_key            *)
(*   CacheSpec    a CacheManager driven by arbitrary get/set/remove/clear  *)
(*   ClearSpec    CacheSpec without the clock                              *)
(*   DamageSpec   CacheSpec with files also written from outside           *)
(*   SweepSpec    CacheManager() constructed over an existing directory    *)
(*   Spec         RiotAPI._make_request over its own CacheManager()        *)
(*   FairSpec     Spec with the scheduling of the event loop               *)
(*   BackoffSpec  Spec with up to five retries, for the delay's ceiling    *)
(*   PayloadSpec  Spec with success responses that may carry null          *)
(*   CancelSpec   Spec with the awaiting task cancelled from outside       *)
(*   SessionSpec  RiotAPI entered, used and exited as a context manager    *)
(*   RaceSpec     two _make_request calls interleaved at their awaits      *)
(*   MatchesSpec  RiotAPI.get_recent_matches, one lookup per step          *)
(*   SeqSpec      get_recent_matches, one await per step                   *)
(*   AiSpec       AIAnalyzer._send_ai_request                              *)
(*   WeChatSpec   WeChatSender.send_analysis_result / _send_to_wechat      *)
(*   TeamsSpec    the pure function GameAnalyzer._analyze_teams            *)
(*   KdaSpec      the pure function GameAnalyzer._calculate_kda            *)
(*   ScoreSpec    GameAnalyzer._calculate_performance_score                *)
(***************************************************************************)
EXTENDS Integers, Sequences, FiniteSets, TLC

VARIABLES
    files,          \* cache_dir: cache key -> persisted record, or NoFile
    order,          \* history: keys of the persisted files, oldest write first
    now,            \* the clock read by datetime.now() and by the file system
    default_ttl,    \* CacheManager.default_ttl
    max_cache_size, \* CacheManager.max_cache_size
    op,             \* history: the CacheManager operation that just completed
    key1, key2,     \* KeySpec: the last two keys computed, with their arguments
    pc,             \* _make_request: "idle", "attempt", "inflight", "sleeping", "done"
    call,           \* _make_request: arguments of the running call
    retry,          \* _make_request: loop variable of `for retry in range(...)`
    retry_delay,    \* _make_request: local retry_delay
    result,         \* _make_request: returned value
    requests,       \* history: session.get calls issued by the running call
    inFlight,       \* history: session.get calls issued and not yet answered
    sleeps,         \* history: durations passed to asyncio.sleep by the call
    outcomes,       \* history: outcome of each attempt of the call
    cacheWrites,    \* history: cache.set calls made by the running call
    step,           \* get_recent_matches: "idle", "listing", "details",
                    \*   "returned", "raised"
    match_ids,      \* get_recent_matches: local match_ids, as a sequence
    idx,            \* get_recent_matches: position of the for loop in match_ids
    matches,        \* get_recent_matches: local matches
    log,            \* history: the _make_request calls of the running
                    \*   get_recent_matches, with result and requests issued
    ncalls,         \* history: get_recent_matches calls started
    tasks,          \* RaceSpec: the two _make_request calls that run interleaved
    client,         \* SessionSpec: RiotAPI.session and the sessions it opened
    ai,             \* AiSpec: the running AIAnalyzer._send_ai_request call
    wx,             \* WeChatSpec: the running WeChatSender._send_to_wechat call
    teams,          \* TeamsSpec: participants and _analyze_teams(participants)
    kdaCall,        \* KdaSpec: arguments and result of _calculate_kda
    scoreCall       \* ScoreSpec: arguments and result of
                    \*   _calculate_performance_score

cacheVars == <<files, order, now, default_ttl, max_cache_size, op>>
keyVars   == <<key1, key2>>
fetchVars == <<pc, call, retry, retry_delay, result, requests, inFlight,
               sleeps, outcomes, cacheWrites>>
matchVars == <<step, match_ids, idx, matches, log, ncalls>>
otherVars == <<tasks, client, ai, wx, teams, kdaCall, scoreCall>>
vars      == <<files, order, now, default_ttl, max_cache_size, op, key1, key2,
               pc, call, retry, retry_delay, result, requests, inFlight,
               sleeps, outcomes, cacheWrites, step, match_ids, idx, matches,
               log, ncalls, tasks, client, ai, wx, teams, kdaCall, scoreCall>>

(***************************************************************************)
(* Bounds of the model                                                     *)
(***************************************************************************)
MaxTime      == 2   \* the clock runs over 0..MaxTime
MaxTtl       == 1   \* explicit ttl arguments range over 0..MaxTtl
DefaultTtl   == 2   \* default_ttl of the CacheManager of CacheSpec
MaxCacheSize == 2   \* max_cache_size ranges over 1..MaxCacheSize
MaxRetries   == 2   \* max_retries ranges over 0..MaxRetries
MaxDamaged   == 1   \* files of DamageSpec damaged from outside at one time

(***************************************************************************)
(* Python values                                                           *)
(***************************************************************************)
\* Optional[int]: <<>> is None, <<t>> is the integer t
None == <<>>
Some(t) == <<t>>

\* Optional[dict] of query parameters: a dict is the sequence of its
\* (name, value) items in insertion order
NoParams == [isNone |-> TRUE, items |-> <<>>]
Dict(items) == [isNone |-> FALSE, items |-> items]

\* bool(params), as tested by `if params:`
ParamsTruthy(params) == ~params.isNone /\ Len(params.items) > 0

\* values handed to the cache, by shape; "object" is not JSON-serializable
Values == {"None", "dict", "emptydict", "emptylist", "list", "tuple", "object"}

\* bool(value), as tested by `if cached_result:`, `if not summoner:`,
\* `if not match_ids:` and `if match_detail:`; every other value of the
\* model is a non-empty container or a non-zero number
Truthy(v) == v \notin {"None", "emptydict", "emptylist"}

\* json.dump raises TypeError on it
Serializable(v) == v # "object"

\* json.load(json.dump(v)): a tuple is written as a JSON array and read back
\* as a list
JsonRoundTrip(v) == IF v = "tuple" THEN "list" ELSE v

(***************************************************************************)
(* CacheManager._get_cache_key                                             *)
(***************************************************************************)
Urls == {"u1", "u2"}

MaxParams == 2   \* parameter names range over 1..MaxParams

\* parameter names and values; a name stands for a string, by its rank in
\* string order
ParamNames == 1..MaxParams
ParamVals  == {1, 2}

\* every dict over ParamNames, in every insertion order
RECURSIVE ItemSeqs(_)
ItemSeqs(n) ==
    IF n = 0 THEN {<<>>}
    ELSE LET shorter == ItemSeqs(n - 1)
         IN  shorter \cup
             { Append(s, <<k, v>>) :
                 s \in {x \in shorter : Len(x) = n - 1},
                 k \in ParamNames, v \in ParamVals }

HasDistinctNames(s) ==
    \A i, j \in 1..Len(s) : i # j => s[i][1] # s[j][1]

ParamMaps ==
    {NoParams} \cup
    { Dict(s) : s \in {x \in ItemSeqs(MaxParams) : HasDistinctNames(x)} }

\* tuple comparison of two (name, value) items, as list.sort compares them
ItemLess(p, q) == p[1] < q[1] \/ (p[1] = q[1] /\ p[2] < q[2])

RECURSIVE InsertItem(_, _)
InsertItem(p, s) ==
    IF s = <<>> THEN <<p>>
    ELSE IF ItemLess(p, Head(s)) THEN <<p>> \o s
    ELSE <<Head(s)>> \o InsertItem(p, Tail(s))

\* a plausible slip: the items are used in the order the caller gave them
Unsorted(s) == s

\* sorted(params.items())
RECURSIVE sorted(_)
sorted(s) ==
    IF s = <<>> THEN <<>> ELSE InsertItem(Head(s), sorted(Tail(s)))

\* cache_string: the url followed by json.dumps(sorted_params), or the url
\* alone when params is None or empty. json.dumps is one-to-one on these
\* lists, so the list stands for its text.
CacheString(url, params) ==
    IF ParamsTruthy(params)
    THEN [url |-> url, params_str |-> sorted(params.items)]
    ELSE [url |-> url, params_str |-> <<>>]

\* the text of a cache string as a number
RECURSIVE ItemsCode(_)
ItemsCode(s) ==
    IF s = <<>> THEN 0
    ELSE Head(s)[1] * 5 + Head(s)[2] + 25 * ItemsCode(Tail(s))

UrlCode(url) ==
    CASE url = "u1" -> 1
      [] url = "u2" -> 2
      [] url = "/lol/summoner/v4/summoners/by-name/n" -> 3
      [] url = "/lol/match/v5/matches/by-puuid/p/ids" -> 4
      [] url = "/lol/match/v5/matches/1" -> 5
      [] url = "/lol/match/v5/matches/2" -> 6
      [] url = "/lol/match/v5/matches/3" -> 7

\* hashlib.sha256(...).hexdigest(): one-to-one on the cache strings of the
\* model, in an order unrelated to that of its arguments
Sha256(cs) == ((UrlCode(cs.url) * 15625 + ItemsCode(cs.params_str)) * 7919) % 65537

_get_cache_key(url, params) == Sha256(CacheString(url, params))

ItemSet(params) == { params.items[i] : i \in 1..Len(params.items) }

(***************************************************************************)
(* KeySpec: _get_cache_key applied to arbitrary arguments                  *)
(***************************************************************************)
KeyCall(url, params) ==
    [url |-> url, params |-> params, key |-> _get_cache_key(url, params)]

ComputeKey ==
    /\ \E url \in Urls, params \in ParamMaps :
          /\ key1' = KeyCall(url, params)
          /\ key2' = key1
    /\ UNCHANGED <<cacheVars, fetchVars, matchVars, otherVars>>

(***************************************************************************)
(* The cache directory                                                     *)
(***************************************************************************)
\* A persisted file <cache_key>.json:
\*   kind        "ok": the JSON text of {created_at, ttl, data};
\*               "partial": text that is not valid JSON;
\*               "nocreated": a JSON object without the key created_at;
\*               "badtime": created_at is no ISO timestamp;
\*               "nodata": a JSON object without the key data
\*   created_at, ttl, data   the fields of the JSON object
\*   mtime       the file's modification time
\*   ttl_arg     history: the ttl argument of the set that wrote the file
NoFile == [kind |-> "none", created_at |-> 0, ttl |-> 0, data |-> "None",
           mtime |-> 0, ttl_arg |-> None]

\* the requests the cache is driven with: three distinct keys
Requests ==
    { [url |-> "u1", params |-> NoParams],
      [url |-> "u1", params |-> Dict(<<<<2, 2>>, <<1, 1>>>>)],
      [url |-> "u2", params |-> NoParams] }

CacheKeys == { _get_cache_key(r.url, r.params) : r \in Requests }

Present(fs) == { k \in DOMAIN fs : fs[k].kind # "none" }

\* the sequence s without the element k
RECURSIVE Without(_, _)
Without(s, k) ==
    IF s = <<>> THEN <<>>
    ELSE IF Head(s) = k THEN Without(Tail(s), k)
    ELSE <<Head(s)>> \o Without(Tail(s), k)

\* os.remove(cache_file)
os_remove(fs, k) == [fs EXCEPT ![k] = NoFile]

(***************************************************************************)
(* CacheManager.get                                                        *)
(***************************************************************************)
\* datetime.now() - created_at < timedelta(seconds=ttl)
Fresh(f, t) == t - f.created_at < f.ttl

\* get(url, params) at time t: the value returned ("None" for None) and the
\* directory afterwards
get(fs, url, params, t) ==
    LET k == _get_cache_key(url, params)
        f == fs[k]
    IN  IF f.kind = "none" THEN [key |-> k, result |-> "None", files |-> fs]
        ELSE IF f.kind = "partial"
             \* json.JSONDecodeError: the file is removed
             THEN [key |-> k, result |-> "None", files |-> os_remove(fs, k)]
        ELSE IF f.kind \in {"nocreated", "badtime"}
             \* KeyError / ValueError at cache_data['created_at']: caught by
             \* `except Exception`, which logs and leaves the file
             THEN [key |-> k, result |-> "None", files |-> fs]
        ELSE IF ~Fresh(f, t)
             THEN [key |-> k, result |-> "None", files |-> os_remove(fs, k)]
        ELSE IF f.kind = "nodata"
             \* KeyError at cache_data['data'], caught by `except Exception`
             THEN [key |-> k, result |-> "None", files |-> fs]
        ELSE [key |-> k, result |-> f.data, files |-> fs]

(***************************************************************************)
(* CacheManager._clean_oldest_cache                                        *)
(***************************************************************************)
\* (mtime, cache_file) tuple comparison used by cache_files.sort(); the file
\* name is the key's hex digest
FileLess(fs, a, b) ==
    fs[a].mtime < fs[b].mtime \/ (fs[a].mtime = fs[b].mtime /\ a < b)

\* cache_files after cache_files.sort()
RECURSIVE SortedFiles(_, _)
SortedFiles(fs, ks) ==
    IF ks = {} THEN <<>>
    ELSE LET first == CHOOSE a \in ks : \A b \in ks \ {a} : FileLess(fs, a, b)
         IN  <<first>> \o SortedFiles(fs, ks \ {first})

cache_files(fs) == SortedFiles(fs, Present(fs))

\* the files popped by `while len(cache_files) > self.max_cache_size`
Evicted(fs, max) ==
    LET cf == cache_files(fs)
        n  == IF Len(cf) > max THEN (IF max < 0 THEN Len(cf) ELSE Len(cf) - max)
              ELSE 0
    IN  { cf[i] : i \in 1..n }

_clean_oldest_cache(fs, max) ==
    [k \in DOMAIN fs |-> IF k \in Evicted(fs, max) THEN NoFile ELSE fs[k]]

(***************************************************************************)
(* CacheManager.set                                                        *)
(***************************************************************************)
\* ttl or self.default_ttl
TtlOrDefault(ttl, dflt) == IF ttl = None \/ ttl[1] = 0 THEN dflt ELSE ttl[1]

\* set(url, data, params, ttl) at time t. open(cache_file, 'w') creates or
\* truncates the file before json.dump runs; json.dump writes as it encodes,
\* so a value it cannot encode leaves the text written so far, and the
\* exception handler returns False without an eviction pass.
set(fs, url, data, params, ttl, t, dflt, max) ==
    LET k == _get_cache_key(url, params)
    IN  IF ~Serializable(data)
        THEN LET written == [fs EXCEPT ![k] =
                              [kind |-> "partial", created_at |-> 0, ttl |-> 0,
                               data |-> "None", mtime |-> t, ttl_arg |-> None]]
             IN  [key |-> k, result |-> "False", written |-> written,
                  files |-> written]
        ELSE LET written == [fs EXCEPT ![k] =
                              [kind |-> "ok", created_at |-> t,
                               ttl |-> TtlOrDefault(ttl, dflt),
                               data |-> JsonRoundTrip(data), mtime |-> t,
                               ttl_arg |-> ttl]]
             IN  [key |-> k, result |-> "True", written |-> written,
                  files |-> _clean_oldest_cache(written, max)]

\* set(url, data, params, ttl) at time t when the file system fails it with
\* an OSError: at open(cache_file, 'w'), which leaves the directory as it
\* was, or while json.dump writes, which leaves the text written so far.
\* Either way the exception handler returns False.
set_oserror(fs, url, params, t) ==
    LET k == _get_cache_key(url, params)
        partial == [fs EXCEPT ![k] =
                     [kind |-> "partial", created_at |-> 0, ttl |-> 0,
                      data |-> "None", mtime |-> t, ttl_arg |-> None]]
    IN  { [key |-> k, result |-> "False", written |-> fs, files |-> fs],
          [key |-> k, result |-> "False", written |-> partial,
           files |-> partial] }

\* a plausible slip: the entries of the url are removed whatever their
\* parameters
remove_url(fs, url, params) ==
    LET k == _get_cache_key(url, params)
        same == { _get_cache_key(r.url, r.params) :
                    r \in { q \in Requests : q.url = url } }
    IN  IF fs[k].kind # "none"
        THEN [key |-> k, result |-> "True",
              files |-> [j \in DOMAIN fs |-> IF j \in same THEN NoFile
                                              ELSE fs[j]]]
        ELSE [key |-> k, result |-> "False", files |-> fs]

\* remove(url, params)
remove(fs, url, params) ==
    LET k == _get_cache_key(url, params)
    IN  IF fs[k].kind # "none"
        THEN [key |-> k, result |-> "True", files |-> os_remove(fs, k)]
        ELSE [key |-> k, result |-> "False", files |-> fs]

\* a plausible slip: only the records that can be read are removed
clearReadable(fs) ==
    [result |-> "True",
     files |-> [k \in DOMAIN fs |-> IF fs[k].kind = "ok" THEN NoFile
                                     ELSE fs[k]]]

\* clear(): shutil.rmtree(cache_dir) and os.makedirs(cache_dir); a directory
\* that does not exist holds no file and is left as it is
clear(fs) == [result |-> "True", files |-> [k \in DOMAIN fs |-> NoFile]]

\* a plausible slip: only the records that can be read are counted
get_cache_size_readable(fs) ==
    Cardinality({ k \in DOMAIN fs : fs[k].kind = "ok" })

\* get_cache_size(): the number of names in the directory ending in .json
get_cache_size(fs) == Cardinality(Present(fs))

\* history: the write order after an operation took the directory from
\* `ord` to fs, k being the key it wrote (or 0)
RECURSIVE KeepPresent(_, _)
KeepPresent(s, fs) ==
    IF s = <<>> THEN <<>>
    ELSE IF fs[Head(s)].kind = "none" THEN KeepPresent(Tail(s), fs)
    ELSE <<Head(s)>> \o KeepPresent(Tail(s), fs)

WriteOrder(ord, k) == Append(Without(ord, k), k)

(***************************************************************************)
(* CacheSpec: one CacheManager, called in any order                        *)
(***************************************************************************)
\* arguments the cache is called with
SetValues == {"dict", "tuple", "object"}
TtlArgs   == {None} \cup { Some(t) : t \in 0..MaxTtl }

NoOp == [name |-> "none", key |-> 0, value |-> "None", ttl |-> None,
         result |-> "None", evicted |-> {}]

NoKeyCall == [url |-> "u1", params |-> NoParams, key |-> 0]

NoCall == [url |-> "u1", params |-> NoParams, max_retries |-> 0,
           ttl |-> None, live |-> FALSE, cached |-> "None"]

FetchIdle ==
    /\ pc = "idle"
    /\ call = NoCall
    /\ retry = 0
    /\ retry_delay = 0
    /\ result = "None"
    /\ requests = 0
    /\ inFlight = 0
    /\ sleeps = <<>>
    /\ outcomes = <<>>
    /\ cacheWrites = 0

MatchesIdle ==
    /\ step = "idle"
    /\ match_ids = <<>>
    /\ idx = 0
    /\ matches = <<>>
    /\ log = <<>>
    /\ ncalls = 0

Tasks == {1, 2}

IdleTask == [pc |-> "idle", retry |-> 0, retry_delay |-> 0, result |-> "None",
             requests |-> 0, wrote |-> 0,
             record |-> [created_at |-> 0, ttl |-> 0, data |-> "None"]]

\* a RiotAPI after __init__: self.session = None, no session opened
NoClient == [scope |-> "new", session |-> 0, sessions |-> <<>>,
             sent |-> <<>>]

\* no _send_ai_request, no _send_to_wechat call made yet
NoSend == [pc |-> "idle", max_retries |-> 0, retry |-> 0, retry_delay |-> 0,
           result |-> "None", requests |-> 0, sleeps |-> <<>>,
           outcomes |-> <<>>, session |-> FALSE, caller |-> "-",
           returned |-> "-"]

NoTeams == [participants |-> <<>>, team_stats |-> <<>>]

\* no _calculate_kda, no _calculate_performance_score call made yet
NoKda == [kills |-> 0, deaths |-> 0, assists |-> 0, returned |-> FALSE,
          result |-> 0]

NoScore == [metrics |-> <<>>, args |-> 0, role |-> "-", returned |-> FALSE,
            result |-> [raised |-> "-", value |-> 0]]

OtherIdle ==
    /\ tasks = [t \in Tasks |-> IdleTask]
    /\ client = NoClient
    /\ ai = NoSend
    /\ wx = NoSend
    /\ teams = NoTeams
    /\ kdaCall = NoKda
    /\ scoreCall = NoScore

\* CacheManager(cache_dir, default_ttl, max_cache_size) over a new directory
CacheInit ==
    /\ files = [k \in CacheKeys |-> NoFile]
    /\ order = <<>>
    /\ now = 0
    /\ default_ttl = DefaultTtl
    /\ max_cache_size \in 1..MaxCacheSize
    /\ op = NoOp
    /\ key1 = NoKeyCall
    /\ key2 = NoKeyCall
    /\ FetchIdle
    /\ MatchesIdle
    /\ OtherIdle

Set ==
    /\ \E r \in Requests, v \in SetValues, ttl \in TtlArgs :
       \E res \in {set(files, r.url, v, r.params, ttl, now, default_ttl,
                       max_cache_size)} :
          /\ files' = res.files
          /\ order' = KeepPresent(WriteOrder(order, res.key), res.files)
          /\ op' = [name |-> "set", key |-> res.key, value |-> v, ttl |-> ttl,
                    result |-> res.result,
                    evicted |-> Present(res.written) \ Present(res.files)]
    /\ UNCHANGED <<now, default_ttl, max_cache_size, keyVars, fetchVars,
                   matchVars, otherVars>>

Get ==
    /\ \E r \in Requests :
       \E res \in {get(files, r.url, r.params, now)} :
          /\ files' = res.files
          /\ order' = KeepPresent(order, res.files)
          /\ op' = [name |-> "get", key |-> res.key, value |-> "None",
                    ttl |-> None, result |-> res.result, evicted |-> {}]
    /\ UNCHANGED <<now, default_ttl, max_cache_size, keyVars, fetchVars,
                   matchVars, otherVars>>

Remove ==
    /\ \E r \in Requests :
       \E res \in {remove(files, r.url, r.params)} :
          /\ files' = res.files
          /\ order' = KeepPresent(order, res.files)
          /\ op' = [name |-> "remove", key |-> res.key, value |-> "None",
                    ttl |-> None, result |-> res.result, evicted |-> {}]
    /\ UNCHANGED <<now, default_ttl, max_cache_size, keyVars, fetchVars,
                   matchVars, otherVars>>

Clear ==
    /\ files' = clear(files).files
    /\ order' = <<>>
    /\ op' = [name |-> "clear", key |-> 0, value |-> "None", ttl |-> None,
              result |-> clear(files).result,
              evicted |-> Present(files) \ Present(clear(files).files)]
    /\ UNCHANGED <<now, default_ttl, max_cache_size, keyVars, fetchVars,
                   matchVars, otherVars>>

\* time passes between two operations
Tick ==
    /\ now < MaxTime
    /\ now' = now + 1
    /\ op' = NoOp
    /\ UNCHANGED <<files, order, default_ttl, max_cache_size, keyVars,
                   fetchVars, matchVars, otherVars>>

CacheNext == Set \/ Get \/ Remove \/ Clear \/ Tick

CacheSpec == CacheInit /\ [][CacheNext]_vars

(***************************************************************************)
(* ClearSpec: a CacheManager whose operations follow one another without   *)
(* the clock advancing                                                     *)
(***************************************************************************)
ClearNext == Set \/ Get \/ Remove \/ Clear

ClearSpec == CacheInit /\ [][ClearNext]_vars

(***************************************************************************)
(* DamageSpec: CacheSpec over a directory whose files can also be written  *)
(* from outside the CacheManager                                           *)
(***************************************************************************)
\* the malformed records that are valid JSON, written at time t (text that
\* is not valid JSON is what a failed set leaves); a record without data
\* carries a valid created_at and ttl
Malformed(t, dflt) ==
    { [kind |-> kd, created_at |-> 0, ttl |-> 0, data |-> "None",
       mtime |-> t, ttl_arg |-> None] : kd \in {"nocreated", "badtime"} }
    \cup { [kind |-> "nodata", created_at |-> t, ttl |-> dflt, data |-> "None",
            mtime |-> t, ttl_arg |-> None] }

\* something other than this CacheManager leaves a malformed record in the
\* file of a key
Damage ==
    /\ Cardinality({ k \in DOMAIN files :
                       files[k].kind \in {"nocreated", "badtime", "nodata"} })
          < MaxDamaged
    /\ \E r \in Requests, f \in Malformed(now, default_ttl) :
       \E k \in {_get_cache_key(r.url, r.params)} :
          /\ files' = [files EXCEPT ![k] = f]
          /\ order' = WriteOrder(order, k)
          /\ op' = [name |-> "damage", key |-> k, value |-> "None",
                    ttl |-> None, result |-> "None", evicted |-> {}]
    /\ UNCHANGED <<now, default_ttl, max_cache_size, keyVars, fetchVars,
                   matchVars, otherVars>>

DamageNext == Set \/ Get \/ Remove \/ Clear \/ Tick \/ Damage

DamageSpec == CacheInit /\ [][DamageNext]_vars

(***************************************************************************)
(* SweepSpec: CacheManager objects constructed over the directory that     *)
(* earlier objects, the clock and other writers have left                  *)
(***************************************************************************)
\* _clean_expired_cache() at time t: a file json.load or the reading of its
\* created_at fails on is removed by the inner handler, a record whose age
\* has reached its ttl is removed, every other file is kept; data is not
\* read
_clean_expired_cache(fs, t) ==
    [k \in DOMAIN fs |->
        IF fs[k].kind = "none" THEN NoFile
        ELSE IF fs[k].kind \in {"partial", "nocreated", "badtime"}
        THEN NoFile
        ELSE IF ~Fresh(fs[k], t) THEN NoFile
        ELSE fs[k]]

\* CacheManager(cache_dir, default_ttl, max_cache_size) over the existing
\* directory: os.makedirs(exist_ok=True) and the sweep
Construct ==
    /\ files' = _clean_expired_cache(files, now)
    /\ order' = KeepPresent(order, files')
    /\ op' = [name |-> "init", key |-> 0, value |-> "None", ttl |-> None,
              result |-> "None",
              evicted |-> Present(files) \ Present(files')]
    /\ UNCHANGED <<now, default_ttl, max_cache_size, keyVars, otherVars,
                   fetchVars, matchVars>>

SweepNext == Set \/ Tick \/ Damage \/ Construct

SweepSpec == CacheInit /\ [][SweepNext]_vars

\* KeySpec starts from an empty cache and computes keys only
KeyInit ==
    /\ files = [k \in CacheKeys |-> NoFile]
    /\ order = <<>>
    /\ now = 0
    /\ default_ttl = 3600
    /\ max_cache_size = 1000
    /\ op = NoOp
    /\ \E url \in Urls, params \in ParamMaps : key1 = KeyCall(url, params)
    /\ key2 = key1
    /\ FetchIdle
    /\ MatchesIdle
    /\ OtherIdle

KeyNext == ComputeKey

KeySpec == KeyInit /\ [][KeyNext]_vars

(***************************************************************************)
(* RiotAPI._make_request                                                   *)
(***************************************************************************)
MAX_DELAY == 30   \* the ceiling of retry_delay and of a 429 sleep

\* the Retry-After header of a response: absent, the text of an integer, or
\* other text (an HTTP date, "1.5")
NoHeader      == [form |-> "absent", secs |-> 0]
IntHeader(h)  == [form |-> "int", secs |-> h]
TextHeader    == [form |-> "text", secs |-> 0]
Headers       == {NoHeader, IntHeader(1), IntHeader(40), TextHeader}

\* what one `async with self.session.get(...)` attempt can end in:
\* a response (status, Retry-After header, body) or a raised exception.
\* body: a JSON document by shape, "badjson" (json() raises
\* JSONDecodeError), "wrongtype" (json() raises aiohttp.ContentTypeError,
\* a ClientError), "-" where the body is not read
Response(st, hdr, body) ==
    [kind |-> "response", status |-> st, header |-> hdr, body |-> body,
     error |-> "-"]
Raised(e) ==
    [kind |-> "raised", status |-> 0, header |-> NoHeader, body |-> "-",
     error |-> e]

Bodies == {"dict", "emptylist", "badjson", "wrongtype"}

\* "TimeoutError": asyncio.TimeoutError, raised when the session's total
\* timeout expires; it is not an aiohttp.ClientError
Outcomes ==
    { Response(200, NoHeader, b) : b \in Bodies }
    \cup { Response(429, h, "-") : h \in Headers }
    \cup { Response(201, NoHeader, "dict") }
    \cup { Response(st, NoHeader, "-") : st \in {204, 400, 404, 499, 500} }
    \cup { Raised(e) : e \in {"ClientConnectionError", "ClientError",
                              "TimeoutError"} }

Min(a, b) == IF a < b THEN a ELSE b

\* a plausible slip: the delay doubles without a ceiling
BackoffUncapped(d) == d * 2

\* retry_delay = min(retry_delay * 2, 30)
Backoff(d) == Min(d * 2, MAX_DELAY)

\* a plausible slip: without a header the initial delay is slept, not the
\* current one
RetryAfterInitialDelay(hdr, d) ==
    Min(IF hdr.form = "int" THEN hdr.secs ELSE 1, MAX_DELAY)

\* retry_after = min(int(response.headers.get("Retry-After", retry_delay)), 30)
\* for a header int() accepts
RetryAfter(hdr, d) ==
    Min(IF hdr.form = "int" THEN hdr.secs ELSE d, MAX_DELAY)

\* a plausible slip: a client error is retried like a server error
HandlingRetryClientErrors(o) ==
    IF o.kind = "raised"
    THEN IF o.error \in {"ClientConnectionError", "ClientError"}
         THEN "sleep" ELSE "fail"
    ELSE IF o.status = 200
         THEN IF o.body = "wrongtype" THEN "sleep"
              ELSE IF o.body = "badjson" THEN "fail" ELSE "success"
    ELSE IF o.status = 429
         THEN IF o.header.form = "text" THEN "fail" ELSE "sleep429"
    ELSE IF 400 <= o.status /\ o.status < 600 THEN "sleep"
    ELSE "fail"

\* the branch of the try statement an attempt's outcome takes:
\*   "success"   status 200 and a parsed body: cache.set, return result
\*   "sleep429"  status 429: sleep retry_after
\*   "sleep"     5xx, ClientConnectionError, ClientError: sleep retry_delay
\*   "fail"      return None: other 4xx, any other status, and every other
\*               exception (`except Exception`), which takes in the
\*               ValueError of int() on a Retry-After that is no integer,
\*               the JSONDecodeError of json() and asyncio.TimeoutError
Handling(o) ==
    IF o.kind = "raised"
    THEN IF o.error \in {"ClientConnectionError", "ClientError"}
         THEN "sleep" ELSE "fail"
    ELSE IF o.status = 200
         THEN IF o.body = "wrongtype" THEN "sleep"
              ELSE IF o.body = "badjson" THEN "fail" ELSE "success"
    ELSE IF o.status = 429
         THEN IF o.header.form = "text" THEN "fail" ELSE "sleep429"
    ELSE IF 400 <= o.status /\ o.status < 500 THEN "fail"
    ELSE IF 500 <= o.status /\ o.status < 600 THEN "sleep"
    ELSE "fail"

\* history: the class of an outcome, as the claims name them
Class(o) ==
    IF o.kind = "raised" THEN "network"
    ELSE IF o.status = 200
         THEN IF o.body \in {"badjson", "wrongtype"} THEN "badbody"
              ELSE "success"
    ELSE IF 200 <= o.status /\ o.status < 300 THEN "2xx"
    ELSE IF o.status = 429 THEN "429"
    ELSE IF 400 <= o.status /\ o.status < 500 THEN "4xx"
    ELSE IF 500 <= o.status /\ o.status < 600 THEN "5xx"
    ELSE "other"

(***************************************************************************)
(* Spec: calls of RiotAPI._make_request, one after another, on a RiotAPI   *)
(* whose cache is CacheManager() over a new directory                      *)
(***************************************************************************)
DEFAULT_TTL    == 3600
MAX_CACHE_SIZE == 1000

\* arguments of the calls
FetchRequests == { [url |-> "u1", params |-> Dict(<<<<2, 2>>, <<1, 1>>>>)] }
FetchTtls     == {None, Some(1)}

Init ==
    /\ files = [k \in CacheKeys |-> NoFile]
    /\ order = <<>>
    /\ now = 0
    /\ default_ttl = DEFAULT_TTL
    /\ max_cache_size = MAX_CACHE_SIZE
    /\ op = NoOp
    /\ key1 = NoKeyCall
    /\ key2 = NoKeyCall
    /\ FetchIdle
    /\ MatchesIdle
    /\ OtherIdle

\* a plausible slip: the loop retries until an attempt ends the call
InRangeForever(i, m) == TRUE

\* i in range(m + 1)
InRange(i, m) == 0 <= i /\ i < m + 1

\* the call up to its first suspension point: cache.get, and on a truthy
\* cached_result the return; otherwise retry_delay = 1 and the loop is
\* entered (range(max_retries + 1) is empty for max_retries < 0)
Call ==
    /\ pc \in {"idle", "done"}
    /\ \E r \in FetchRequests, m \in 0..MaxRetries, ttl \in FetchTtls :
       \E res \in {get(files, r.url, r.params, now)} :
          /\ files' = res.files
          /\ order' = KeepPresent(order, res.files)
          /\ call' = [url |-> r.url, params |-> r.params, max_retries |-> m,
                      ttl |-> ttl,
                      live |-> files[res.key].kind = "ok"
                               /\ Fresh(files[res.key], now),
                      cached |-> res.result]
          /\ requests' = 0
          /\ inFlight' = 0
          /\ sleeps' = <<>>
          /\ outcomes' = <<>>
          /\ cacheWrites' = 0
          /\ retry' = 0
          /\ IF Truthy(res.result)
             THEN /\ result' = res.result
                  /\ retry_delay' = 0
                  /\ pc' = "done"
             ELSE /\ result' = "None"
                  /\ retry_delay' = 1
                  /\ pc' = IF InRange(0, m) THEN "attempt" ELSE "done"
    /\ UNCHANGED <<now, default_ttl, max_cache_size, op, keyVars, matchVars, otherVars>>

\* self.session.get(url, headers=headers, params=params) is issued
SendRequest ==
    /\ pc = "attempt"
    /\ requests' = requests + 1
    /\ inFlight' = inFlight + 1
    /\ pc' = "inflight"
    /\ UNCHANGED <<cacheVars, keyVars, matchVars, otherVars, call, retry, retry_delay,
                   result, sleeps, outcomes, cacheWrites>>

\* history: what is recorded of an attempt's outcome o; stored is the value
\* cache.set returned, "-" when it was not called
Outcome(o, stored) ==
    [class |-> Class(o), hinted |-> o.header.form # "absent",
     header |-> o.header, error |-> o.error, body |-> o.body,
     stored |-> stored]

\* a plausible slip: the payload is returned only when it was cached
ReturnedIfCached(body, stored) == IF stored = "True" THEN body ELSE "None"

\* self.cache.set(url, result, params, ttl); return result: the value of
\* cache.set is not looked at
Returned(body, stored) == body

\* the attempt ends in outcome o and the try statement handles it, up to the
\* return or the asyncio.sleep
Receive ==
    /\ pc = "inflight"
    /\ \E o \in Outcomes :
       \E h \in {Handling(o)} :
          /\ inFlight' = inFlight - 1
          /\ IF h = "success"
             THEN \E res \in {set(files, call.url, o.body, call.params,
                                  call.ttl, now, default_ttl,
                                  max_cache_size)}
                              \cup set_oserror(files, call.url, call.params,
                                               now) :
                     /\ files' = res.files
                     /\ order' = KeepPresent(
                                    IF res.result = "False"
                                       /\ res.written = files
                                    THEN order
                                    ELSE WriteOrder(order, res.key),
                                    res.files)
                     /\ cacheWrites' = cacheWrites + 1
                     /\ outcomes' = Append(outcomes,
                                           Outcome(o, res.result))
                     /\ result' = Returned(o.body, res.result)
                     /\ pc' = "done"
                     /\ UNCHANGED sleeps
             ELSE IF h = "fail"
             THEN /\ outcomes' = Append(outcomes, Outcome(o, "-"))
                  /\ result' = "None"
                  /\ pc' = "done"
                  /\ UNCHANGED <<files, order, cacheWrites, sleeps>>
             ELSE /\ outcomes' = Append(outcomes, Outcome(o, "-"))
                  /\ sleeps' = Append(sleeps,
                                      IF h = "sleep429"
                                      THEN RetryAfter(o.header, retry_delay)
                                      ELSE retry_delay)
                  /\ pc' = "sleeping"
                  /\ UNCHANGED <<files, order, cacheWrites, result>>
    /\ UNCHANGED <<now, default_ttl, max_cache_size, op, keyVars, matchVars, otherVars,
                   call, retry, retry_delay, requests>>

\* asyncio.sleep returns: retry_delay grows and the loop goes on to its next
\* iteration, or ends and the call returns None
Wake ==
    /\ pc = "sleeping"
    /\ retry_delay' = Backoff(retry_delay)
    /\ retry' = retry + 1
    /\ pc' = IF InRange(retry + 1, call.max_retries) THEN "attempt"
             ELSE "done"
    /\ result' = "None"
    /\ UNCHANGED <<cacheVars, keyVars, matchVars, otherVars, call, requests, inFlight,
                   sleeps, outcomes, cacheWrites>>

\* time passes while the call is suspended, or between two calls
Elapse ==
    /\ pc \in {"idle", "done", "inflight", "sleeping"}
    /\ now < MaxTime
    /\ now' = now + 1
    /\ UNCHANGED <<files, order, default_ttl, max_cache_size, op, keyVars,
                   fetchVars, matchVars, otherVars>>

Next == Call \/ SendRequest \/ Receive \/ Wake \/ Elapse

Spec == Init /\ [][Next]_vars

\* Spec with the scheduling of the event loop: a request that can be issued
\* is issued, an attempt in flight ends (in a response or, at the latest,
\* in the session's timeout), and asyncio.sleep returns
FairSpec ==
    /\ Init
    /\ [][Next]_vars
    /\ WF_vars(SendRequest)
    /\ WF_vars(Receive)
    /\ WF_vars(Wake)

(***************************************************************************)
(* BackoffSpec: _make_request calls with enough retries for retry_delay to *)
(* reach its ceiling, the upstream answering with the outcomes that matter *)
(* to the delay                                                            *)
(***************************************************************************)
MaxBackoffRetries == 5   \* max_retries of the calls ranges over 0..5

\* a success, a client error, and the retryable outcomes: 429 without and
\* with a Retry-After, 5xx, a network failure
BackoffOutcomes ==
    { Response(200, NoHeader, "dict"), Response(404, NoHeader, "-"),
      Response(429, NoHeader, "-"), Response(429, IntHeader(40), "-"),
      Response(500, NoHeader, "-"), Raised("ClientError") }

\* Call, with max_retries up to MaxBackoffRetries and no ttl argument
BackoffCall ==
    /\ pc \in {"idle", "done"}
    /\ \E r \in FetchRequests, m \in 0..MaxBackoffRetries :
       \E res \in {get(files, r.url, r.params, now)} :
          /\ files' = res.files
          /\ order' = KeepPresent(order, res.files)
          /\ call' = [url |-> r.url, params |-> r.params, max_retries |-> m,
                      ttl |-> None,
                      live |-> files[res.key].kind = "ok"
                               /\ Fresh(files[res.key], now),
                      cached |-> res.result]
          /\ requests' = 0
          /\ inFlight' = 0
          /\ sleeps' = <<>>
          /\ outcomes' = <<>>
          /\ cacheWrites' = 0
          /\ retry' = 0
          /\ IF Truthy(res.result)
             THEN /\ result' = res.result
                  /\ retry_delay' = 0
                  /\ pc' = "done"
             ELSE /\ result' = "None"
                  /\ retry_delay' = 1
                  /\ pc' = IF InRange(0, m) THEN "attempt" ELSE "done"
    /\ UNCHANGED <<now, default_ttl, max_cache_size, op, keyVars, matchVars,
                   otherVars>>

\* Receive, the attempt ending in one of BackoffOutcomes
BackoffReceive ==
    /\ pc = "inflight"
    /\ \E o \in BackoffOutcomes :
       \E h \in {Handling(o)} :
          /\ inFlight' = inFlight - 1
          /\ IF h = "success"
             THEN \E res \in {set(files, call.url, o.body, call.params,
                                  call.ttl, now, default_ttl,
                                  max_cache_size)} :
                     /\ files' = res.files
                     /\ order' = KeepPresent(WriteOrder(order, res.key),
                                             res.files)
                     /\ cacheWrites' = cacheWrites + 1
                     /\ outcomes' = Append(outcomes,
                                           Outcome(o, res.result))
                     /\ result' = Returned(o.body, res.result)
                     /\ pc' = "done"
                     /\ UNCHANGED sleeps
             ELSE IF h = "fail"
             THEN /\ outcomes' = Append(outcomes, Outcome(o, "-"))
                  /\ result' = "None"
                  /\ pc' = "done"
                  /\ UNCHANGED <<files, order, cacheWrites, sleeps>>
             ELSE /\ outcomes' = Append(outcomes, Outcome(o, "-"))
                  /\ sleeps' = Append(sleeps,
                                      IF h = "sleep429"
                                      THEN RetryAfter(o.header, retry_delay)
                                      ELSE retry_delay)
                  /\ pc' = "sleeping"
                  /\ UNCHANGED <<files, order, cacheWrites, result>>
    /\ UNCHANGED <<now, default_ttl, max_cache_size, op, keyVars, matchVars,
                   otherVars, call, retry, retry_delay, requests>>

BackoffNext == BackoffCall \/ SendRequest \/ BackoffReceive \/ Wake

BackoffSpec == Init /\ [][BackoffNext]_vars

(***************************************************************************)
(* PayloadSpec: Spec with an upstream whose success responses may also     *)
(* carry the JSON document null, which response.json() returns as None     *)
(***************************************************************************)
PayloadOutcomes == Outcomes \cup { Response(200, NoHeader, "None") }

\* Receive, the attempt ending in one of PayloadOutcomes
PayloadReceive ==
    /\ pc = "inflight"
    /\ \E o \in PayloadOutcomes :
       \E h \in {Handling(o)} :
          /\ inFlight' = inFlight - 1
          /\ IF h = "success"
             THEN \E res \in {set(files, call.url, o.body, call.params,
                                  call.ttl, now, default_ttl,
                                  max_cache_size)}
                              \cup set_oserror(files, call.url, call.params,
                                               now) :
                     /\ files' = res.files
                     /\ order' = KeepPresent(
                                    IF res.result = "False"
                                       /\ res.written = files
                                    THEN order
                                    ELSE WriteOrder(order, res.key),
                                    res.files)
                     /\ cacheWrites' = cacheWrites + 1
                     /\ outcomes' = Append(outcomes,
                                           Outcome(o, res.result))
                     /\ result' = Returned(o.body, res.result)
                     /\ pc' = "done"
                     /\ UNCHANGED sleeps
             ELSE IF h = "fail"
             THEN /\ outcomes' = Append(outcomes, Outcome(o, "-"))
                  /\ result' = "None"
                  /\ pc' = "done"
                  /\ UNCHANGED <<files, order, cacheWrites, sleeps>>
             ELSE /\ outcomes' = Append(outcomes, Outcome(o, "-"))
                  /\ sleeps' = Append(sleeps,
                                      IF h = "sleep429"
                                      THEN RetryAfter(o.header, retry_delay)
                                      ELSE retry_delay)
                  /\ pc' = "sleeping"
                  /\ UNCHANGED <<files, order, cacheWrites, result>>
    /\ UNCHANGED <<now, default_ttl, max_cache_size, op, keyVars, matchVars,
                   otherVars, call, retry, retry_delay, requests>>

PayloadNext == Call \/ SendRequest \/ PayloadReceive \/ Wake \/ Elapse

PayloadSpec == Init /\ [][PayloadNext]_vars

(***************************************************************************)
(* CancelSpec: Spec with a caller that may cancel the running call, by     *)
(* task.cancel() or by the timeout of asyncio.wait_for                     *)
(***************************************************************************)
\* a plausible slip: asyncio.CancelledError taken for an Exception, which
\* it was before Python 3.8
IsExceptionAlways(e) == TRUE

\* isinstance(e, Exception): asyncio.CancelledError derives from
\* BaseException
IsException(e) == e # "CancelledError"

\* CancelledError is raised at the await on which the call is suspended,
\* session.get or asyncio.sleep, both inside the try statement; the request
\* in flight is abandoned. `except Exception` returns None for what it
\* catches; what no handler catches leaves the call.
Cancel ==
    /\ pc \in {"inflight", "sleeping"}
    /\ inFlight' = 0
    /\ outcomes' = Append(outcomes, Outcome(Raised("CancelledError"), "-"))
    /\ IF IsException("CancelledError")
       THEN /\ result' = "None"
            /\ pc' = "done"
       ELSE /\ pc' = "cancelled"
            /\ UNCHANGED result
    /\ UNCHANGED <<cacheVars, keyVars, matchVars, otherVars, call, retry,
                   retry_delay, requests, sleeps, cacheWrites>>

CancelNext == Call \/ SendRequest \/ Receive \/ Wake \/ Elapse \/ Cancel

CancelSpec == Init /\ [][CancelNext]_vars

(***************************************************************************)
(* RiotAPI.get_recent_matches                                              *)
(***************************************************************************)
MAX_RETRIES == 3   \* max_retries: int = 3, the default the lookups run with

\* the loop `for retry in range(max_retries + 1)` from iteration i on, the
\* upstream answering the attempts with the outcomes of script in turn: the
\* value returned, the requests issued, and whether cache.set is called
RECURSIVE Attempts(_, _, _)
Attempts(script, i, m) ==
    IF i >= m + 1
    THEN [body |-> "None", requests |-> 0, success |-> FALSE]
    ELSE LET h == Handling(Head(script))
         IN  IF h = "success"
             THEN [body |-> Head(script).body, requests |-> 1,
                   success |-> TRUE]
             ELSE IF h = "fail"
             THEN [body |-> "None", requests |-> 1, success |-> FALSE]
             ELSE LET rest == Attempts(Tail(script), i + 1, m)
                  IN  [rest EXCEPT !.requests = @ + 1]

\* one whole _make_request(endpoint, params, max_retries = m, ttl) call at time
\* t against an upstream that answers with script
_make_request(fs, endpoint, params, m, ttl, script, t, dflt, max) ==
    LET c == get(fs, endpoint, params, t)
    IN  IF Truthy(c.result)
        THEN [key |-> c.key, result |-> c.result, requests |-> 0,
              wrote |-> FALSE, files |-> c.files]
        ELSE LET a == Attempts(script, 0, m)
             IN  IF a.success
                 THEN [key |-> c.key, result |-> a.body,
                       requests |-> a.requests, wrote |-> TRUE,
                       files |-> set(c.files, endpoint, a.body, params, ttl,
                                     t, dflt, max).files]
                 ELSE [key |-> c.key, result |-> "None",
                       requests |-> a.requests, wrote |-> FALSE,
                       files |-> c.files]

\* endpoints and parameters of the three lookups, for the summoner name n,
\* whose puuid is p
SummonerUrl  == "/lol/summoner/v4/summoners/by-name/n"
MatchIdsUrl  == "/lol/match/v5/matches/by-puuid/p/ids"
CountParams  == Dict(<<<<1, 2>>>>)
MatchIds     == {1, 2, 3}
MatchUrl(id) ==
    CASE id = 1 -> "/lol/match/v5/matches/1"
      [] id = 2 -> "/lol/match/v5/matches/2"
      [] id = 3 -> "/lol/match/v5/matches/3"

MatchRequests ==
    { [url |-> SummonerUrl, params |-> NoParams],
      [url |-> MatchIdsUrl, params |-> CountParams] }
    \cup { [url |-> MatchUrl(id), params |-> NoParams] : id \in MatchIds }

MatchKeys == { _get_cache_key(r.url, r.params) : r \in MatchRequests }

\* JSON documents the upstream answers 200 with, by lookup:
\*   summoner  "summoner" an object with a puuid, "nopuuid" an object
\*             without one, "emptydict", "list" a non-empty array
\*   match ids "ids1" the array [1], "ids3" the array [1, 2, 3],
\*             "emptylist", "number" a non-zero number
\*   detail    the object describing the match, or "emptydict"
SummonerBodies == {"summoner", "nopuuid", "emptydict", "list"}
MatchIdsBodies == {"ids1", "ids3", "emptylist", "number"}
MatchDetail(id) ==
    CASE id = 1 -> "detail1" [] id = 2 -> "detail2" [] id = 3 -> "detail3"
DetailBodies(id) == {MatchDetail(id), "emptydict"}

\* summoner.get exists: the value is a dict
IsDict(v) == v \in {"summoner", "nopuuid", "emptydict"}

\* a plausible slip: summoner.get('puuid', default), which always has a value
puuidWithDefault(v) == "p"

\* summoner.get('puuid')
puuid(v) == IF v = "summoner" THEN "p" ELSE "None"

\* `for match_id in match_ids` can iterate the value
IsIterable(v) == v \in {"ids1", "ids3", "emptylist", "list"}

\* a plausible slip: the ids are fetched newest last
IdsOfReversed(v) ==
    CASE v = "ids1" -> <<1>>
      [] v = "ids3" -> <<3, 2, 1>>
      [] OTHER -> <<>>

\* the ids `for match_id in match_ids` runs over
IdsOf(v) ==
    CASE v = "ids1" -> <<1>>
      [] v = "ids3" -> <<1, 2, 3>>
      [] OTHER -> <<>>

\* what the upstream answers to the attempts of one lookup whose 200 bodies
\* are `bodies`: a final outcome at once, or after one retryable outcome, or
\* a retryable outcome on every attempt
Retryable == {Response(500, NoHeader, "-"), Response(429, NoHeader, "-")}
Final(bodies) ==
    { Response(200, NoHeader, b) : b \in bodies }
    \cup {Response(404, NoHeader, "-"), Raised("TimeoutError")}
Scripts(bodies) ==
    { <<f>> : f \in Final(bodies) }
    \cup { <<r, f>> : r \in Retryable, f \in Final(bodies) }
    \cup { [i \in 1..(MAX_RETRIES + 1) |-> r] : r \in Retryable }

MaxCalls == 2   \* get_recent_matches calls on one RiotAPI

LogEntry(lookup, res) ==
    [lookup |-> lookup, result |-> res.result, requests |-> res.requests]

\* history: the write order after a _make_request call
OrderAfter(ord, res) ==
    KeepPresent(IF res.wrote THEN WriteOrder(ord, res.key) ELSE ord, res.files)

\* get_recent_matches up to its second await: get_summoner_by_name, the two
\* early returns, and the AttributeError of summoner.get on a value that is
\* no dict
LookupSummoner ==
    /\ step \in {"idle", "returned", "raised"}
    /\ ncalls < MaxCalls
    /\ ncalls' = ncalls + 1
    /\ \E script \in Scripts(SummonerBodies) :
       \E res \in {_make_request(files, SummonerUrl, NoParams, MAX_RETRIES,
                                None, script, now, default_ttl,
                                max_cache_size)} :
          /\ files' = res.files
          /\ order' = OrderAfter(order, res)
          /\ log' = <<LogEntry("summoner", res)>>
          /\ step' = IF ~Truthy(res.result) THEN "returned"
                     ELSE IF ~IsDict(res.result) THEN "raised"
                     ELSE IF ~Truthy(puuid(res.result)) THEN "returned"
                     ELSE "listing"
    /\ match_ids' = <<>>
    /\ idx' = 0
    /\ matches' = <<>>
    /\ UNCHANGED <<now, default_ttl, max_cache_size, op, keyVars, otherVars, fetchVars>>

\* the listing request, the early return, and the first evaluation of the
\* for statement, which raises TypeError on a value that cannot be iterated
\* and returns matches when there is nothing to iterate
ListMatchIds ==
    /\ step = "listing"
    /\ \E script \in Scripts(MatchIdsBodies) :
       \E res \in {_make_request(files, MatchIdsUrl, CountParams, MAX_RETRIES,
                                None, script, now, default_ttl,
                                max_cache_size)} :
          /\ files' = res.files
          /\ order' = OrderAfter(order, res)
          /\ log' = Append(log, LogEntry("ids", res))
          /\ match_ids' = IdsOf(res.result)
          /\ step' = IF ~Truthy(res.result) THEN "returned"
                     ELSE IF ~IsIterable(res.result) THEN "raised"
                     ELSE IF IdsOf(res.result) = <<>> THEN "returned"
                     ELSE "details"
    /\ idx' = 1
    /\ matches' = <<>>
    /\ UNCHANGED <<now, default_ttl, max_cache_size, op, keyVars, otherVars, fetchVars,
                   ncalls>>

\* one iteration of `for match_id in match_ids`: get_match_detail and the
\* append; after the last one, `return matches`
FetchDetail ==
    /\ step = "details"
    /\ idx <= Len(match_ids)
    /\ \E script \in Scripts(DetailBodies(match_ids[idx])) :
       \E res \in {_make_request(files, MatchUrl(match_ids[idx]), NoParams,
                                MAX_RETRIES, None, script, now, default_ttl,
                                max_cache_size)} :
          /\ files' = res.files
          /\ order' = OrderAfter(order, res)
          /\ log' = Append(log, LogEntry("detail", res))
          /\ matches' = IF Truthy(res.result) THEN Append(matches, res.result)
                        ELSE matches
    /\ idx' = idx + 1
    /\ step' = IF idx + 1 <= Len(match_ids) THEN "details" ELSE "returned"
    /\ UNCHANGED <<now, default_ttl, max_cache_size, op, keyVars, otherVars, fetchVars,
                   match_ids, ncalls>>

\* a RiotAPI() over a new cache directory
MatchesInit ==
    /\ files = [k \in MatchKeys |-> NoFile]
    /\ order = <<>>
    /\ now = 0
    /\ default_ttl = DEFAULT_TTL
    /\ max_cache_size = MAX_CACHE_SIZE
    /\ op = NoOp
    /\ key1 = NoKeyCall
    /\ key2 = NoKeyCall
    /\ FetchIdle
    /\ MatchesIdle
    /\ OtherIdle

MatchesNext == LookupSummoner \/ ListMatchIds \/ FetchDetail

MatchesSpec == MatchesInit /\ [][MatchesNext]_vars

(***************************************************************************)
(* SeqSpec: get_recent_matches with each lookup running attempt by         *)
(* attempt: the _make_request call it awaits is started, issues its        *)
(* requests, sleeps and returns, and get_recent_matches then goes on       *)
(***************************************************************************)
\* the lookup get_recent_matches makes next, by its position
LookupOf(st) ==
    CASE st \in {"idle", "returned", "raised"} -> "summoner"
      [] st = "listing" -> "ids"
      [] st = "details" -> "detail"

LookupRequest(lookup, id) ==
    CASE lookup = "summoner" -> [url |-> SummonerUrl, params |-> NoParams]
      [] lookup = "ids" -> [url |-> MatchIdsUrl, params |-> CountParams]
      [] lookup = "detail" -> [url |-> MatchUrl(id), params |-> NoParams]

LookupBodies(lookup, id) ==
    CASE lookup = "summoner" -> SummonerBodies
      [] lookup = "ids" -> MatchIdsBodies
      [] lookup = "detail" -> DetailBodies(id)

Awaiting == {"await_summoner", "await_ids", "await_detail"}

\* the id of the detail lookup at position idx, 0 for the other lookups
CurrentId == IF idx \in 1..Len(match_ids) THEN match_ids[idx] ELSE 0

\* get_recent_matches calls _make_request for its next lookup; the call
\* runs to its first await: cache.get, and on a truthy cached_result the
\* return
StartLookup ==
    /\ step \notin Awaiting
    /\ step \in {"idle", "returned", "raised"} => ncalls < MaxCalls
    /\ step = "details" => idx <= Len(match_ids)
    /\ LET lookup == LookupOf(step)
           first  == lookup = "summoner"
           r      == LookupRequest(lookup, CurrentId)
       IN  \E res \in {get(files, r.url, r.params, now)} :
              /\ files' = res.files
              /\ order' = KeepPresent(order, res.files)
              /\ call' = [url |-> r.url, params |-> r.params,
                          max_retries |-> MAX_RETRIES, ttl |-> None,
                          live |-> files[res.key].kind = "ok"
                                   /\ Fresh(files[res.key], now),
                          cached |-> res.result]
              /\ step' = CASE lookup = "summoner" -> "await_summoner"
                           [] lookup = "ids" -> "await_ids"
                           [] lookup = "detail" -> "await_detail"
              /\ ncalls' = IF first THEN ncalls + 1 ELSE ncalls
              /\ log' = IF first THEN <<>> ELSE log
              /\ match_ids' = IF first THEN <<>> ELSE match_ids
              /\ idx' = IF first THEN 0 ELSE idx
              /\ matches' = IF first THEN <<>> ELSE matches
              /\ requests' = 0
              /\ inFlight' = 0
              /\ retry' = 0
              /\ IF Truthy(res.result)
                 THEN /\ result' = res.result
                      /\ retry_delay' = 0
                      /\ pc' = "done"
                 ELSE /\ result' = "None"
                      /\ retry_delay' = 1
                      /\ pc' = IF InRange(0, MAX_RETRIES) THEN "attempt"
                               ELSE "done"
    /\ UNCHANGED <<now, default_ttl, max_cache_size, op, keyVars, otherVars, sleeps,
                   outcomes, cacheWrites>>

\* the attempt of the running lookup ends in outcome o and the try
\* statement handles it, up to the return or the asyncio.sleep
ReceiveLookup ==
    /\ step \in Awaiting
    /\ pc = "inflight"
    /\ \E o \in Retryable
                \cup Final(LookupBodies(LookupOf(
                         IF step = "await_summoner" THEN "idle"
                         ELSE IF step = "await_ids" THEN "listing"
                         ELSE "details"), CurrentId)) :
       \E h \in {Handling(o)} :
          /\ inFlight' = inFlight - 1
          /\ IF h = "success"
             THEN \E res \in {set(files, call.url, o.body, call.params,
                                  call.ttl, now, default_ttl,
                                  max_cache_size)} :
                     /\ files' = res.files
                     /\ order' = KeepPresent(WriteOrder(order, res.key),
                                             res.files)
                     /\ result' = Returned(o.body, res.result)
                     /\ pc' = "done"
             ELSE IF h = "fail"
             THEN /\ result' = "None"
                  /\ pc' = "done"
                  /\ UNCHANGED <<files, order>>
             ELSE /\ pc' = "sleeping"
                  /\ UNCHANGED <<files, order, result>>
    /\ UNCHANGED <<now, default_ttl, max_cache_size, op, keyVars, matchVars, otherVars,
                   call, retry, retry_delay, requests, sleeps, outcomes,
                   cacheWrites>>

\* get_summoner_by_name has returned: the two early returns, and the
\* AttributeError of summoner.get on a value that is no dict
ResumeSummoner ==
    /\ step = "await_summoner"
    /\ pc = "done"
    /\ log' = <<[lookup |-> "summoner", result |-> result,
                 requests |-> requests]>>
    /\ step' = IF ~Truthy(result) THEN "returned"
               ELSE IF ~IsDict(result) THEN "raised"
               ELSE IF ~Truthy(puuid(result)) THEN "returned"
               ELSE "listing"
    /\ UNCHANGED <<cacheVars, keyVars, otherVars, fetchVars, match_ids, idx, matches,
                   ncalls>>

\* the listing request has returned: the early return and the first
\* evaluation of the for statement
ResumeListing ==
    /\ step = "await_ids"
    /\ pc = "done"
    /\ log' = Append(log, [lookup |-> "ids", result |-> result,
                           requests |-> requests])
    /\ match_ids' = IdsOf(result)
    /\ step' = IF ~Truthy(result) THEN "returned"
               ELSE IF ~IsIterable(result) THEN "raised"
               ELSE IF IdsOf(result) = <<>> THEN "returned"
               ELSE "details"
    /\ idx' = 1
    /\ matches' = <<>>
    /\ UNCHANGED <<cacheVars, keyVars, otherVars, fetchVars, ncalls>>

\* get_match_detail has returned: the append, and the next iteration of the
\* for statement or `return matches`
ResumeDetail ==
    /\ step = "await_detail"
    /\ pc = "done"
    /\ log' = Append(log, [lookup |-> "detail", result |-> result,
                           requests |-> requests])
    /\ matches' = IF Truthy(result) THEN Append(matches, result)
                  ELSE matches
    /\ idx' = idx + 1
    /\ step' = IF idx + 1 <= Len(match_ids) THEN "details" ELSE "returned"
    /\ UNCHANGED <<cacheVars, keyVars, otherVars, fetchVars, match_ids, ncalls>>

SeqNext ==
    \/ StartLookup \/ SendRequest \/ ReceiveLookup \/ Wake
    \/ ResumeSummoner \/ ResumeListing \/ ResumeDetail

SeqSpec == MatchesInit /\ [][SeqNext]_vars

(***************************************************************************)
(* Claims about the cache, checked under CacheSpec and KeySpec             *)
(***************************************************************************)
\* the first n elements of a sequence, as a set
FirstN(s, n) == { s[i] : i \in 1..(IF n < Len(s) THEN n ELSE Len(s)) }

\* C6: set(url, value, params) immediately followed by get(url, params)
\* returns a value equal to the one written. Stated here for the values JSON
\* represents exactly and for the sets that reported success.
C6_SetThenGetReturnsValue ==
    [][ ( /\ op.name = "set" /\ op.result = "True" /\ op.value = "dict"
          /\ op'.name = "get" /\ op'.key = op.key )
        => op'.result = op.value ]_vars

\* C7: for an entry written by set with ttl argument t (the default when
\* none is passed), get returns the payload exactly while
\* now - created_at < t; at or after age t it returns absent and removes the
\* record, so that the size is one smaller.
C7_GetHonoursWrittenTtl ==
    [][ ( op'.name = "get" /\ files[op'.key].kind = "ok" )
        => LET f == files[op'.key]
               t == IF f.ttl_arg = None THEN default_ttl ELSE f.ttl_arg[1]
           IN  IF now - f.created_at < t
               THEN op'.result = f.data /\ files'[op'.key] = f
               ELSE /\ op'.result = "None"
                    /\ files'[op'.key] = NoFile
                    /\ get_cache_size(files') = get_cache_size(files) - 1 ]_vars

\* C8: after every completed set, get_cache_size() is at most max_cache_size.
C8_SizeWithinMaxAfterSet ==
    op.name = "set" => get_cache_size(files) <= max_cache_size

\* C9: the eviction pass removes entries in ascending order of last write
\* time: a set that pushes the count to max + n removes exactly the n least
\* recently written entries and keeps the others, where a re-write makes a
\* key the newest and a get moves nothing (the history variable `order`).
C9_EvictsLeastRecentlyWritten ==
    [][ ( op'.name = "set" /\ op'.result = "True" /\ op' # op )
        => LET ord == WriteOrder(order, op'.key)
           IN  op'.evicted = FirstN(ord, Len(ord) - max_cache_size) ]_vars

\* C10: _get_cache_key(url, p1) = _get_cache_key(url, p2) whenever p1 and p2
\* hold the same key/value pairs, in whatever order.
C10_KeyIgnoresParamOrder ==
    ( key1.url = key2.url /\ ItemSet(key1.params) = ItemSet(key2.params) )
    => key1.key = key2.key

\* two maps with the same two pairs in opposite orders got the same key
C10_Witness ==
    /\ key1.url = key2.url
    /\ ItemSet(key1.params) = ItemSet(key2.params)
    /\ Len(key1.params.items) >= 2
    /\ key1.params.items # key2.params.items
    /\ key1.key = key2.key

\* the kinds of record that get cannot read
MalformedKinds == {"partial", "nocreated", "badtime", "nodata"}

\* C11: a get for a key whose persisted record is malformed (not valid JSON,
\* JSON without created_at or without data, an unparsable timestamp) returns
\* absent and deletes the record, so that the size is one smaller.
C11_MalformedRecordIsDeleted ==
    [][ ( op'.name = "get" /\ files[op'.key].kind \in MalformedKinds )
        => /\ op'.result = "None"
           /\ files'[op'.key] = NoFile
           /\ get_cache_size(files') = get_cache_size(files) - 1 ]_vars

Persisted(fs) == { k \in DOMAIN fs : fs[k] # NoFile }

\* the file of key k is past its ttl at time t, or cannot be read
Stale(f, t) == f.kind \in MalformedKinds \/ ~Fresh(f, t)

\* C21: get_cache_size() is the number of persisted files, expired ones
\* included; the clock advancing does not change it, and a file leaves the
\* directory only by the eviction pass of a set, by a get that finds it
\* expired or unreadable, by remove or by clear.
C21_SizeCountsPersistedEntries ==
    [][ /\ get_cache_size(files') = Cardinality(Persisted(files'))
        /\ now' # now => get_cache_size(files') = get_cache_size(files)
        /\ \A k \in Persisted(files) \ Persisted(files') :
              \/ op'.name = "set" /\ k \in op'.evicted
              \/ op'.name = "get" /\ op'.key = k /\ Stale(files[k], now)
              \/ op'.name = "remove" /\ op'.key = k
              \/ op'.name = "clear" ]_vars

\* the store holds an expired entry and a file that cannot be read, and both
\* are counted
C21_Witness ==
    /\ get_cache_size(files) = 2
    /\ \E k \in Persisted(files) :
          files[k].kind = "ok" /\ ~Fresh(files[k], now)
    /\ \E k \in Persisted(files) : files[k].kind = "partial"

(***************************************************************************)
(* Claims about _make_request, checked under Spec                          *)
(***************************************************************************)
AllClasses(cs) == \A i \in 1..Len(outcomes) : outcomes[i].class \in cs

\* the sleep i of the call followed a 429 response carrying a Retry-After
SleepHinted(i) == outcomes[i].class = "429" /\ outcomes[i].hinted

\* C1: one call issues at most max_retries + 1 network requests, and when
\* every attempt ends in a retryable outcome (429, 5xx, network failure) it
\* returns None after exactly max_retries + 1 requests.
C1_BoundedAttempts ==
    /\ requests <= call.max_retries + 1
    /\ ( pc = "done" /\ requests >= 1
         /\ AllClasses({"429", "5xx", "network"}) )
       => ( result = "None" /\ requests = call.max_retries + 1 )

\* C2: when k retryable outcomes (429 or 5xx, k <= max_retries) are followed
\* by a success response, the call returns the payload of that response
\* after exactly k + 1 requests: after k such outcomes the call is still
\* running, and a success response ends it with its payload.
C2_RetryThenSuccess ==
    /\ ( requests >= 1 /\ AllClasses({"429", "5xx"})
         /\ Len(outcomes) <= call.max_retries )
       => pc # "done"
    /\ ( pc = "done" /\ outcomes # <<>>
         /\ outcomes[Len(outcomes)].class = "success" )
       => ( result = outcomes[Len(outcomes)].body
            /\ requests = Len(outcomes) )

\* C3 as claimed: the sleep durations of one call are non-decreasing, and
\* at most one attempt of the call is in flight.
C3_SleepsNonDecreasing ==
    /\ \A i, j \in 1..Len(sleeps) : i < j => sleeps[i] <= sleeps[j]
    /\ inFlight <= 1

\* C3 as amended: the sleeps of one call that are not taken from a
\* Retry-After header are non-decreasing, and at most one attempt of the
\* call is in flight.
C3_BackoffSleepsNonDecreasing ==
    /\ \A i, j \in 1..Len(sleeps) :
          ( i < j /\ ~SleepHinted(i) /\ ~SleepHinted(j) )
          => sleeps[i] <= sleeps[j]
    /\ inFlight <= 1

\* a call slept a header's duration, longer than the backoff sleep after it,
\* between two growing backoff sleeps
C3_Witness ==
    /\ Len(sleeps) = 3
    /\ ~SleepHinted(1) /\ SleepHinted(2) /\ ~SleepHinted(3)
    /\ sleeps[1] < sleeps[3]
    /\ sleeps[2] > sleeps[3]

\* C4: when the first response is a 4xx other than 429, the call returns
\* None after exactly one request, without a sleep, a retry or a cache write.
C4_ClientErrorFailsFast ==
    ( outcomes # <<>> /\ outcomes[1].class = "4xx" )
    => /\ pc = "done"
       /\ result = "None"
       /\ requests = 1
       /\ retry = 0
       /\ sleeps = <<>>
       /\ cacheWrites = 0
       /\ Len(outcomes) = 1

\* a call that could have retried twice ended on its first response, a 4xx
C4_Witness ==
    /\ pc = "done"
    /\ call.max_retries = MaxRetries
    /\ outcomes # <<>> /\ outcomes[1].class = "4xx"
    /\ requests = 1
    /\ result = "None"

\* C5: when the cache holds a live entry for the request, the call returns
\* that entry's payload without a network request, whatever the payload.
C5_LiveEntryIsServed ==
    call.live => ( pc = "done" /\ result = call.cached /\ requests = 0 )

(***************************************************************************)
(* Claims about get_recent_matches, checked under MatchesSpec              *)
(***************************************************************************)
\* the _make_request call returned a payload
Succeeded(r) == r # "None"

\* the results of the detail fetches of the running call, in order
DetailResults == [i \in 1..(Len(log) - 2) |-> log[i + 2].result]

\* identity resolution returned absent, or an identity without puuid
NoIdentity(r) == r \in {"None", "emptydict", "nopuuid"}

\* C12: when the listing step returned ids, get_recent_matches fetches the
\* detail of every one of them, whatever the earlier fetches returned, and
\* returns exactly the details of the ids whose fetch succeeded, in the
\* order the ids were listed.
C12_ReturnsDetailsOfSucceededFetches ==
    ( step = "returned" /\ match_ids # <<>> )
    => /\ Len(log) = 2 + Len(match_ids)
       /\ matches = SelectSeq(DetailResults, Succeeded)

\* C13: when identity resolution returns absent or an identity without
\* puuid, the call has returned the empty list after that one lookup; when
\* the listing returns absent, it has returned the empty list without a
\* detail lookup.
C13_FailedLookupEndsTheCall ==
    /\ ( log # <<>> /\ NoIdentity(log[1].result) )
       => ( step = "returned" /\ matches = <<>> /\ Len(log) = 1 )
    /\ ( Len(log) >= 2 /\ log[2].result = "None" )
       => ( step = "returned" /\ matches = <<>> /\ Len(log) = 2 )

\* the identity was resolved, then the listing failed on every attempt and
\* the call returned
C13_Witness ==
    /\ step = "returned"
    /\ Len(log) = 2
    /\ log[1].result = "summoner"
    /\ log[2].result = "None"
    /\ log[2].requests = MAX_RETRIES + 1
    /\ matches = <<>>

\* C14: get_recent_matches ends by returning; no exception escapes it.
C14_NoExceptionEscapes == step # "raised"

(***************************************************************************)
(* Claims about the handling of one attempt's outcome, checked under Spec  *)
(***************************************************************************)
\* the outcome of the latest attempt of the running call
Last == outcomes[Len(outcomes)]

\* the latest attempt was not the last one the call may make
AttemptsRemain == Len(outcomes) <= call.max_retries

RECURSIVE Pow2(_)
Pow2(n) == IF n = 0 THEN 1 ELSE 2 * Pow2(n - 1)

\* the backoff delay current at attempt i of a call: 1, doubled after each
\* earlier attempt, at most MAX_DELAY
CurrentDelay(i) == Min(Pow2(i - 1), MAX_DELAY)

\* C15: when the attempt got a success response and cache.set then returned
\* failure, the call returns the payload of the response.
C15_PayloadReturnedWhenSetFails ==
    ( outcomes # <<>> /\ Last.class = "success" /\ Last.stored = "False" )
    => ( pc = "done" /\ result = Last.body /\ result # "None" )

\* a call ended with the fetched payload after a cache.set that failed and
\* left no entry
C15_Witness ==
    /\ pc = "done"
    /\ outcomes # <<>>
    /\ Last.class = "success"
    /\ Last.stored = "False"
    /\ result = "dict"
    /\ cacheWrites = 1
    /\ files[_get_cache_key(call.url, call.params)].kind # "ok"

\* C16: every response with a 2xx status ends the call with its parsed body
\* as the result, written to the cache under the request's key.
C16_Every2xxIsSuccess ==
    ( outcomes # <<>> /\ Last.class \in {"success", "2xx"} )
    => /\ pc = "done"
       /\ result = Last.body
       /\ cacheWrites = 1

\* C17: after a 429 response with attempts remaining the call sleeps and
\* goes on to another request, whatever the form of the Retry-After header;
\* the sleep is the header's number of seconds when there is a header and
\* the current backoff delay otherwise, at most MAX_DELAY.
C17_RateLimitSleepsThenRetries ==
    ( outcomes # <<>> /\ Last.class = "429" /\ AttemptsRemain )
    => /\ pc \in {"sleeping", "attempt", "inflight"}
       /\ Len(sleeps) = Len(outcomes)
       /\ sleeps[Len(sleeps)] =
             IF Last.header.form = "int"
             THEN Min(Last.header.secs, MAX_DELAY)
             ELSE CurrentDelay(Len(outcomes))

\* C18: after a network-level failure of an attempt (connection failure or
\* timeout) with attempts remaining the call sleeps the current backoff
\* delay and goes on to another request.
C18_NetworkFailureIsRetried ==
    ( outcomes # <<>> /\ Last.class = "network" /\ AttemptsRemain )
    => /\ pc \in {"sleeping", "attempt", "inflight"}
       /\ Len(sleeps) = Len(outcomes)
       /\ sleeps[Len(sleeps)] = CurrentDelay(Len(outcomes))

\* C19: every call returns, after at most max_retries + 1 requests, and
\* with None unless its last attempt got a success response: a call whose
\* attempts are all answered 429, 5xx or fail at network level does not
\* retry for ever.
C19_EveryCallReturns ==
    /\ [] ( /\ requests <= call.max_retries + 1
            /\ ( pc = "done" /\ outcomes # <<>> /\ Last.class # "success" )
               => result = "None" )
    /\ ( pc \in {"attempt", "inflight", "sleeping"} ) ~> ( pc = "done" )

\* a call answered 429 on every attempt returned None after
\* max_retries + 1 requests
C19_Witness ==
    /\ pc = "done"
    /\ call.max_retries = MaxRetries
    /\ requests = MaxRetries + 1
    /\ AllClasses({"429"})
    /\ result = "None"

(***************************************************************************)
(* SessionSpec: the aiohttp.ClientSession objects of one RiotAPI, which    *)
(* is entered and left as a context manager and asked for requests, in any *)
(* order                                                                   *)
(***************************************************************************)
MaxSessions == 2   \* sessions one RiotAPI opens
MaxUses     == 3   \* _make_request calls on one RiotAPI

\* aiohttp.ClientSession(): a new open session becomes self.session
OpenSession(c) ==
    [c EXCEPT !.sessions = Append(@, "open"), !.session = Len(c.sessions) + 1]

\* if not self.session: self.session = aiohttp.ClientSession()
\* (a ClientSession object is truthy, closed or not)
LazySession(c) == IF c.session = 0 THEN OpenSession(c) ELSE c

\* if self.session: await self.session.close()
CloseSession(c) ==
    IF c.session # 0 THEN [c EXCEPT !.sessions[c.session] = "closed"] ELSE c

\* what the attempts of a call meet: session.get on a closed session raises
\* RuntimeError('Session is closed'), which `except Exception` handles
UpstreamOf(state) ==
    IF state = "closed" THEN {<<Raised("RuntimeError")>>}
    ELSE Scripts({"dict"})

\* async with RiotAPI() as riot_api: __aenter__
Enter ==
    /\ client.scope \in {"new", "ended"}
    /\ Len(client.sessions) < MaxSessions
    /\ client' = [OpenSession(client) EXCEPT !.scope = "inside"]
    /\ UNCHANGED <<cacheVars, keyVars, fetchVars, matchVars, tasks, ai, wx,
                   teams,
                   kdaCall, scoreCall>>

\* __aexit__, on every way out of the async with block
Exit ==
    /\ client.scope = "inside"
    /\ client' = [CloseSession(client) EXCEPT !.scope = "ended"]
    /\ UNCHANGED <<cacheVars, keyVars, fetchVars, matchVars, tasks, ai, wx,
                   teams,
                   kdaCall, scoreCall>>

\* one whole _make_request call; history: the state of the session it used
\* and the requests it issued on it
Request ==
    /\ Len(client.sent) < MaxUses
    /\ client.session = 0 => Len(client.sessions) < MaxSessions
    /\ \E c \in {LazySession(client)} :
       \E state \in {c.sessions[c.session]} :
       \E script \in UpstreamOf(state) :
       \E res \in {_make_request(files, "u1", NoParams, MAX_RETRIES, None,
                                script, now, default_ttl, max_cache_size)} :
          /\ files' = res.files
          /\ order' = OrderAfter(order, res)
          /\ client' = [c EXCEPT !.sent = Append(@,
                           [session |-> state, requests |-> res.requests,
                            result |-> res.result])]
    /\ UNCHANGED <<now, default_ttl, max_cache_size, op, keyVars, fetchVars,
                   matchVars, tasks, ai, wx, teams,
                   kdaCall, scoreCall>>

SessionNext == Enter \/ Exit \/ Request \/ Elapse

SessionSpec == Init /\ [][SessionNext]_vars

(***************************************************************************)
(* AiSpec: calls of AIAnalyzer._send_ai_request. The module ai_analyzer    *)
(* does not import asyncio, so the evaluation of `asyncio.sleep` raises    *)
(* NameError and no call reaches a second iteration of its loop: every     *)
(* path through the first iteration ends in a return or in a raise.        *)
(***************************************************************************)
\* the global names of the module ai_analyzer, bound by its imports
AiNames == {"aiohttp", "logging", "json", "re", "Dict", "Optional",
            "datetime", "Config"}

\* the evaluation of `asyncio.sleep(...)` in a module with these global
\* names
asyncio_sleep(names) == IF "asyncio" \in names THEN "sleep" ELSE "NameError"

\* JSON documents the model API answers 200 with: "completion" has
\* choices[0].message.content, "nochoices" has an empty choices array;
\* "badjson" is no JSON (ValueError), "wrongtype" has a content type
\* response.json() refuses (ContentTypeError, a ClientError)
AiBodies == {"completion", "emptydict", "nochoices", "badjson", "wrongtype"}

AiOutcomes ==
    { Response(200, NoHeader, b) : b \in AiBodies }
    \cup { Response(429, h, "-") : h \in Headers }
    \cup { Response(st, NoHeader, "-") :
             st \in {201, 404, 500, 501, 502, 503, 504} }
    \cup { Raised(e) : e \in {"ClientConnectionError", "ClientError",
                              "TimeoutError"} }

\* result.get('choices', [{}])[0].get('message', {}).get('content', '')
Content(body) ==
    CASE body = "completion" -> "text"
      [] body = "emptydict" -> "emptystr"
      [] OTHER -> "None"

\* the branch of the try statement an attempt's outcome takes: "success"
\* the return of the content, "fail" a return None (the else branch, or an
\* exception `except Exception` catches), "sleep" the asyncio.sleep of the
\* 429 and 5xx branches, "handler" the asyncio.sleep of the
\* `except aiohttp.ClientError` handler
AiHandling(o) ==
    IF o.kind = "raised"
    THEN IF o.error \in {"ClientConnectionError", "ClientError"}
         THEN "handler" ELSE "fail"
    ELSE IF o.status = 200
         THEN IF o.body = "wrongtype" THEN "handler"
              ELSE IF o.body \in {"badjson", "nochoices"} THEN "fail"
              ELSE "success"
    ELSE IF o.status = 429
         THEN IF o.header.form = "text" THEN "fail" ELSE "sleep"
    ELSE IF o.status \in {500, 502, 503, 504} THEN "sleep"
    ELSE "fail"

\* _send_ai_request(messages, max_retries) is called, on an AIAnalyzer with
\* or without a session, and runs to its first await
AiCall ==
    /\ ai.pc \in {"idle", "done", "raised"}
    /\ \E m \in 0..MaxRetries, sess \in BOOLEAN :
          ai' = [NoSend EXCEPT !.max_retries = m, !.retry_delay = 1,
                               !.session = sess,
                               !.caller = "_send_ai_request",
                               !.pc = IF InRange(0, m) THEN "attempt"
                                      ELSE "done"]
    /\ UNCHANGED <<cacheVars, keyVars, fetchVars, matchVars, tasks, client,
                   wx, teams,
                   kdaCall, scoreCall>>

\* session.post(...) is issued, on self.session or on a temporary session
AiSend ==
    /\ ai.pc = "attempt"
    /\ ai' = [ai EXCEPT !.pc = "inflight", !.requests = @ + 1]
    /\ UNCHANGED <<cacheVars, keyVars, fetchVars, matchVars, tasks, client,
                   wx, teams,
                   kdaCall, scoreCall>>

\* the attempt ends in outcome o. A NameError raised in the body of the try
\* statement is caught by `except Exception`, which returns None; raised in
\* the handler of aiohttp.ClientError it leaves the call.
AiReceive ==
    /\ ai.pc = "inflight"
    /\ \E o \in AiOutcomes :
       \E h \in {AiHandling(o)}, sl \in {asyncio_sleep(AiNames)} :
          ai' = [ai EXCEPT
                   !.outcomes = Append(@, o),
                   !.result = IF h = "success" THEN Content(o.body)
                              ELSE IF h = "handler" /\ sl = "NameError"
                              THEN "NameError"
                              ELSE "None",
                   !.sleeps = IF h \in {"sleep", "handler"} /\ sl = "sleep"
                              THEN Append(@, IF o.status = 429
                                             THEN RetryAfter(o.header,
                                                             ai.retry_delay)
                                             ELSE ai.retry_delay)
                              ELSE @,
                   !.pc = IF h \in {"success", "fail"} THEN "done"
                          ELSE IF sl = "sleep" THEN "sleeping"
                          ELSE IF h = "handler" THEN "raised"
                          ELSE "done"]
    /\ UNCHANGED <<cacheVars, keyVars, fetchVars, matchVars, tasks, client,
                   wx, teams,
                   kdaCall, scoreCall>>

AiNext == AiCall \/ AiSend \/ AiReceive

AiSpec == Init /\ [][AiNext]_vars

(***************************************************************************)
(* WeChatSpec: calls of WeChatSender._send_to_wechat, made directly or by  *)
(* send_analysis_result. The module wechat_sender does not import asyncio  *)
(* either, and no call reaches a second iteration of its loop.             *)
(***************************************************************************)
\* the global names of the module wechat_sender, bound by its imports
WxNames == {"aiohttp", "logging", "Dict", "Optional", "Config"}

WX_MAX_RETRIES == 2   \* max_retries: int = 2

\* JSON documents the webhook answers 200 with: errcode 0, another errcode,
\* no errcode; "badjson" and "wrongtype" as for the model API
WxBodies == {"errcode0", "errcode1", "noerrcode", "badjson", "wrongtype"}

WxOutcomes ==
    { Response(200, NoHeader, b) : b \in WxBodies }
    \cup { Response(st, NoHeader, "-") :
             st \in {201, 404, 429, 500, 501, 502, 503, 504} }
    \cup { Raised(e) : e \in {"ClientConnectionError", "ClientError",
                              "TimeoutError"} }

\* the branch of the try statement an attempt's outcome takes: "success"
\* return True, "fail" return False, "sleep" the asyncio.sleep of the 5xx
\* branch, "handler" the asyncio.sleep of the aiohttp.ClientError handler
WxHandling(o) ==
    IF o.kind = "raised"
    THEN IF o.error \in {"ClientConnectionError", "ClientError"}
         THEN "handler" ELSE "fail"
    ELSE IF o.status = 200
         THEN IF o.body = "wrongtype" THEN "handler"
              ELSE IF o.body = "errcode0" THEN "success"
              ELSE "fail"
    ELSE IF o.status \in {500, 502, 503, 504} THEN "sleep"
    ELSE "fail"

\* arguments of send_analysis_result: an empty result, a result
\* _format_message returns None for, a result it formats
AnalysisResults == {"emptydict", "unformattable", "result"}

\* _send_to_wechat(message, max_retries) is called directly, on a
\* WeChatSender with or without a webhook url and a session
SendToWechat ==
    /\ wx.pc \in {"idle", "done", "raised"}
    /\ \E m \in 0..MaxRetries, sess \in BOOLEAN, webhook \in BOOLEAN :
          wx' = [NoSend EXCEPT !.max_retries = m, !.session = sess,
                               !.caller = "_send_to_wechat",
                               !.retry_delay = IF webhook THEN 1 ELSE 0,
                               !.result = IF webhook THEN "None" ELSE "False",
                               !.pc = IF webhook /\ InRange(0, m)
                                      THEN "attempt" ELSE "done"]
    /\ UNCHANGED <<cacheVars, keyVars, fetchVars, matchVars, tasks, client,
                   ai, teams,
                   kdaCall, scoreCall>>

\* send_analysis_result(analysis_result) up to its first await: the early
\* returns, _format_message, and the call of _send_to_wechat(message)
SendAnalysisResult ==
    /\ wx.pc \in {"idle", "done", "raised"}
    /\ \E a \in AnalysisResults, sess \in BOOLEAN, webhook \in BOOLEAN :
          wx' = IF ~Truthy(a) \/ ~webhook \/ a = "unformattable"
                THEN [NoSend EXCEPT !.session = sess,
                                    !.caller = "send_analysis_result",
                                    !.returned = "False",
                                    !.pc = "done"]
                ELSE [NoSend EXCEPT !.session = sess,
                                    !.caller = "send_analysis_result",
                                    !.max_retries = WX_MAX_RETRIES,
                                    !.retry_delay = 1,
                                    !.pc = "attempt"]
    /\ UNCHANGED <<cacheVars, keyVars, fetchVars, matchVars, tasks, client,
                   ai, teams,
                   kdaCall, scoreCall>>

\* session.post(...) is issued, on self.session or on a temporary session
WxSend ==
    /\ wx.pc = "attempt"
    /\ wx' = [wx EXCEPT !.pc = "inflight", !.requests = @ + 1]
    /\ UNCHANGED <<cacheVars, keyVars, fetchVars, matchVars, tasks, client,
                   ai, teams,
                   kdaCall, scoreCall>>

\* the attempt ends in outcome o. A NameError raised in the body of the try
\* statement is caught by `except Exception`, which returns False; raised
\* in the handler of aiohttp.ClientError it leaves _send_to_wechat, and
\* `except Exception` of send_analysis_result returns False for it.
WxReceive ==
    /\ wx.pc = "inflight"
    /\ \E o \in WxOutcomes :
       \E h \in {WxHandling(o)}, sl \in {asyncio_sleep(WxNames)} :
       \E res \in {IF h = "success" THEN "True"
                    ELSE IF h = "handler" /\ sl = "NameError"
                    THEN "NameError"
                    ELSE "False"} :
          wx' = [wx EXCEPT
                   !.outcomes = Append(@, o),
                   !.result = res,
                   !.sleeps = IF h \in {"sleep", "handler"} /\ sl = "sleep"
                              THEN Append(@, wx.retry_delay)
                              ELSE @,
                   !.returned = IF wx.caller # "send_analysis_result"
                                   \/ ( h \in {"sleep", "handler"}
                                        /\ sl = "sleep" )
                                THEN @
                                ELSE IF res = "True" THEN "True"
                                ELSE "False",
                   !.pc = IF h \in {"success", "fail"} THEN "done"
                          ELSE IF sl = "sleep" THEN "sleeping"
                          ELSE IF h = "handler"
                                  /\ wx.caller = "_send_to_wechat"
                          THEN "raised"
                          ELSE "done"]
    /\ UNCHANGED <<cacheVars, keyVars, fetchVars, matchVars, tasks, client,
                   ai, teams,
                   kdaCall, scoreCall>>

WeChatNext == SendToWechat \/ SendAnalysisResult \/ WxSend \/ WxReceive

WeChatSpec == Init /\ [][WeChatNext]_vars

(***************************************************************************)
(* TeamsSpec: GameAnalyzer._analyze_teams applied to lists of participants *)
(***************************************************************************)
MaxParticipants == 3   \* participants in one list
MaxKills        == 1   \* kills of one participant range over 0..MaxKills

\* a participant: hasTeamId tells whether the record has the key teamId;
\* kills and win are stats.kills and stats.win
Participants ==
    { [hasTeamId |-> TRUE, teamId |-> t, kills |-> k, win |-> w] :
        t \in {100, 200, 300}, k \in 0..MaxKills, w \in BOOLEAN }
    \cup { [hasTeamId |-> FALSE, teamId |-> 0, kills |-> k, win |-> w] :
             k \in 0..MaxKills, w \in BOOLEAN }

ParticipantLists ==
    UNION { [1..n -> Participants] : n \in 0..MaxParticipants }

\* a plausible slip: a participant without teamId belongs to no team
team_id_or_none(p) == p.teamId

\* participant.get('teamId', 100)
team_id(p) == IF p.hasTeamId THEN p.teamId ELSE 100

\* teams[t] after the first loop: the participants appended to the list of
\* team t, in order
team_participants(ps, t) == SelectSeq(ps, LAMBDA p : team_id(p) = t)

\* sum(p.get('stats', {}).get('kills', 0) for p in team_participants)
RECURSIVE SumKills(_)
SumKills(ps) == IF ps = <<>> THEN 0 ELSE Head(ps).kills + SumKills(Tail(ps))

\* team_name = "蓝队" if team_id == 100 else "红队", written blue and red
team_name(t) == IF t = 100 THEN "blue" ELSE "red"

\* _analyze_teams(participants): team_stats, by team name
_analyze_teams(ps) ==
    [name \in {team_name(t) : t \in {100, 200}} |->
        LET t  == CHOOSE u \in {100, 200} : team_name(u) = name
            tp == team_participants(ps, t)
        IN  [team_id |-> t,
             total_kills |-> SumKills(tp),
             players |-> Len(tp),
             win |-> \E i \in 1..Len(tp) : tp[i].win]]

\* a list of participants not yet analysed
TeamsInit ==
    /\ files = [k \in CacheKeys |-> NoFile]
    /\ order = <<>>
    /\ now = 0
    /\ default_ttl = DEFAULT_TTL
    /\ max_cache_size = MAX_CACHE_SIZE
    /\ op = NoOp
    /\ key1 = NoKeyCall
    /\ key2 = NoKeyCall
    /\ FetchIdle
    /\ MatchesIdle
    /\ tasks = [t \in Tasks |-> IdleTask]
    /\ client = NoClient
    /\ ai = NoSend
    /\ wx = NoSend
    /\ kdaCall = NoKda
    /\ scoreCall = NoScore
    /\ \E ps \in ParticipantLists :
          teams = [participants |-> ps, team_stats |-> <<>>]

\* team_analysis = self._analyze_teams(participants)
AnalyzeTeams ==
    /\ teams.team_stats = <<>>
    /\ teams' = [teams EXCEPT
                   !.team_stats = _analyze_teams(teams.participants)]
    /\ UNCHANGED <<cacheVars, keyVars, fetchVars, matchVars, tasks, client,
                   ai, wx,
                   kdaCall, scoreCall>>

TeamsNext == AnalyzeTeams

TeamsSpec == TeamsInit /\ [][TeamsNext]_vars

(***************************************************************************)
(* KdaSpec: GameAnalyzer._calculate_kda applied to kills, deaths, assists. *)
(* A returned float is held in hundredths: 5.0 is 500, 0.12 is 12.         *)
(***************************************************************************)
MaxKdaKills == 10   \* kills range over 0..MaxKdaKills
MaxDeaths   == 8    \* deaths range over 0..MaxDeaths
MaxAssists  == 15   \* assists range over 0..MaxAssists

\* round(n / d, 2) in hundredths, for 0 < d < 40: the quotient is a tie
\* between two hundredths only when it is an exact binary fraction (an odd
\* multiple of 1/8), and round() then goes to the even hundredth
Round2(n, d) ==
    LET q == (100 * n) \div d
        r == (100 * n) % d
    IN  IF 2 * r > d THEN q + 1
        ELSE IF 2 * r < d THEN q
        ELSE IF q % 2 = 0 THEN q ELSE q + 1

\* a plausible slip: the quotient cut to two decimals, not rounded
_calculate_kda_truncated(kills, deaths, assists) ==
    IF deaths = 0 THEN 100 * (kills + assists)
    ELSE (100 * (kills + assists)) \div deaths

\* _calculate_kda(kills, deaths, assists), in hundredths
_calculate_kda(kills, deaths, assists) ==
    IF deaths = 0 THEN 100 * (kills + assists)
    ELSE Round2(kills + assists, deaths)

\* the statistics of one player, no KDA computed yet
KdaInit ==
    /\ files = [k \in CacheKeys |-> NoFile]
    /\ order = <<>>
    /\ now = 0
    /\ default_ttl = DEFAULT_TTL
    /\ max_cache_size = MAX_CACHE_SIZE
    /\ op = NoOp
    /\ key1 = NoKeyCall
    /\ key2 = NoKeyCall
    /\ FetchIdle
    /\ MatchesIdle
    /\ tasks = [t \in Tasks |-> IdleTask]
    /\ client = NoClient
    /\ ai = NoSend
    /\ wx = NoSend
    /\ teams = NoTeams
    /\ scoreCall = NoScore
    /\ \E k \in 0..MaxKdaKills, d \in 0..MaxDeaths, a \in 0..MaxAssists :
          kdaCall = [kills |-> k, deaths |-> d, assists |-> a,
                     returned |-> FALSE, result |-> 0]

\* kda = self._calculate_kda(kills, deaths, assists)
CalculateKda ==
    /\ ~kdaCall.returned
    /\ kdaCall' = [kdaCall EXCEPT
                     !.returned = TRUE,
                     !.result = _calculate_kda(kdaCall.kills, kdaCall.deaths,
                                               kdaCall.assists)]
    /\ UNCHANGED <<cacheVars, keyVars, fetchVars, matchVars, tasks, client,
                   ai, wx, teams, scoreCall>>

KdaNext == CalculateKda

KdaSpec == KdaInit /\ [][KdaNext]_vars

(***************************************************************************)
(* ScoreSpec: GameAnalyzer._calculate_performance_score applied to a       *)
(* metrics record, with or without the argument role.  kda,                *)
(* vision_per_minute and the returned score are held in hundredths.        *)
(***************************************************************************)
MaxLevel == 2   \* each metric ranges over the levels 0..MaxLevel

\* the keys of the record of tests/game_analyzer.py, and the keys that
\* _calculate_performance_score reads
TestKeys == {"kda", "gold_per_minute", "damage_per_minute", "vision_score",
             "objective_control"}
ReadKeys == {"kda", "gold_per_minute", "damage_per_minute",
             "vision_per_minute", "cs_per_minute", "kill_participation",
             "damage_share"}

\* the average and the top value of each metric: those of the two records
\* of tests/game_analyzer.py, and for the other keys a value of the middle
\* and of the highest band
AverageOf == [kda |-> 250, gold_per_minute |-> 250, damage_per_minute |-> 500,
              vision_score |-> 20, objective_control |-> 2,
              vision_per_minute |-> 100, cs_per_minute |-> 5,
              kill_participation |-> 50, damage_share |-> 20]
TopOf     == [kda |-> 1000, gold_per_minute |-> 500,
              damage_per_minute |-> 1500, vision_score |-> 60,
              objective_control |-> 10, vision_per_minute |-> 250,
              cs_per_minute |-> 9, kill_participation |-> 90,
              damage_share |-> 40]

LevelValue(k, l) ==
    IF l = 0 THEN 0 ELSE IF l = 1 THEN AverageOf[k] ELSE (l - 1) * TopOf[k]

\* the metrics records passed: with the keys of the tests, or with the keys
\* read (those of the call in _analyze_player that matter)
MetricRecords ==
    { [k \in DOMAIN lv |-> LevelValue(k, lv[k])] :
        lv \in [TestKeys -> 0..MaxLevel] \cup [ReadKeys -> 0..MaxLevel] }

\* self.role_weights, in hundredths
role_weights ==
    [TOP     |-> [kda |-> 20, damage |-> 20, gold |-> 15, cs |-> 15,
                  vision |-> 10, kill_participation |-> 10,
                  damage_share |-> 10],
     JUNGLE  |-> [kda |-> 20, damage |-> 15, gold |-> 15, cs |-> 10,
                  vision |-> 15, kill_participation |-> 20,
                  damage_share |-> 5],
     MIDDLE  |-> [kda |-> 20, damage |-> 25, gold |-> 15, cs |-> 15,
                  vision |-> 10, kill_participation |-> 10,
                  damage_share |-> 5],
     BOTTOM  |-> [kda |-> 20, damage |-> 25, gold |-> 20, cs |-> 15,
                  vision |-> 5, kill_participation |-> 10,
                  damage_share |-> 5],
     UTILITY |-> [kda |-> 15, damage |-> 10, gold |-> 10, cs |-> 5,
                  vision |-> 30, kill_participation |-> 20,
                  damage_share |-> 10],
     UNKNOWN |-> [kda |-> 20, damage |-> 20, gold |-> 15, cs |-> 15,
                  vision |-> 10, kill_participation |-> 10,
                  damage_share |-> 10]]

\* the roles passed: the keys of role_weights and one that is not a key
RoleArgs == DOMAIN role_weights \cup {"NONE"}

\* the if/elif chains of _calculate_kda_score ... _calculate_damage_share_score:
\* <<threshold, score>> from the top, the else branch as threshold 0
ScoreBands ==
    [kda |-> << <<1500, 100>>, <<1200, 95>>, <<1000, 90>>, <<800, 85>>,
                <<700, 80>>, <<600, 75>>, <<500, 70>>, <<400, 65>>,
                <<300, 60>>, <<200, 50>>, <<100, 40>>, <<50, 30>>,
                <<0, 20>> >>,
     gold |-> << <<450, 100>>, <<400, 90>>, <<350, 80>>, <<300, 70>>,
                 <<250, 60>>, <<200, 50>>, <<150, 40>>, <<0, 30>> >>,
     damage |-> << <<800, 100>>, <<700, 90>>, <<600, 80>>, <<500, 70>>,
                   <<400, 60>>, <<300, 50>>, <<200, 40>>, <<0, 30>> >>,
     vision |-> << <<250, 100>>, <<200, 90>>, <<150, 80>>, <<100, 70>>,
                   <<80, 60>>, <<50, 50>>, <<0, 30>> >>,
     cs |-> << <<9, 100>>, <<8, 90>>, <<7, 80>>, <<6, 70>>, <<5, 60>>,
               <<4, 50>>, <<3, 40>>, <<0, 30>> >>,
     kill_participation |->
            << <<90, 100>>, <<80, 90>>, <<70, 80>>, <<60, 70>>, <<50, 60>>,
               <<40, 50>>, <<30, 40>>, <<0, 30>> >>,
     damage_share |->
            << <<40, 100>>, <<35, 90>>, <<30, 80>>, <<25, 70>>, <<20, 60>>,
               <<15, 50>>, <<10, 40>>, <<0, 30>> >>]

\* the score of the first band whose threshold the value reaches
BandScore(part, v) ==
    LET b == ScoreBands[part]
        i == CHOOSE i \in 1..Len(b) :
                 /\ v >= b[i][1]
                 /\ \A j \in 1..(i - 1) : v < b[j][1]
    IN  b[i][2]

\* metrics.get(key, 0)
MetricGet(metrics, k) == IF k \in DOMAIN metrics THEN metrics[k] ELSE 0

\* the key of metrics that each part of the score reads
MetricOf == [kda |-> "kda", gold |-> "gold_per_minute",
             damage |-> "damage_per_minute", vision |-> "vision_per_minute",
             cs |-> "cs_per_minute",
             kill_participation |-> "kill_participation",
             damage_share |-> "damage_share"]

PartScore(metrics, part) == BandScore(part, MetricGet(metrics, MetricOf[part]))

\* _calculate_performance_score(metrics, role), in hundredths: the weights
\* are multiples of 0.05 and the scores of 5, so round(total_score, 2)
\* changes nothing
_calculate_performance_score(metrics, role) ==
    LET weights == IF role \in DOMAIN role_weights THEN role_weights[role]
                   ELSE role_weights["UNKNOWN"]
        total_score ==
              PartScore(metrics, "kda") * weights["kda"]
            + PartScore(metrics, "gold") * weights["gold"]
            + PartScore(metrics, "damage") * weights["damage"]
            + PartScore(metrics, "vision") * weights["vision"]
            + PartScore(metrics, "cs") * weights["cs"]
            + PartScore(metrics, "kill_participation")
                  * weights["kill_participation"]
            + PartScore(metrics, "damage_share") * weights["damage_share"]
    IN  Min(total_score, 10000)

\* a metrics record and the arguments of a call not yet made: args is the
\* number of arguments passed, the metrics alone or the metrics and a role
ScoreInit ==
    /\ files = [k \in CacheKeys |-> NoFile]
    /\ order = <<>>
    /\ now = 0
    /\ default_ttl = DEFAULT_TTL
    /\ max_cache_size = MAX_CACHE_SIZE
    /\ op = NoOp
    /\ key1 = NoKeyCall
    /\ key2 = NoKeyCall
    /\ FetchIdle
    /\ MatchesIdle
    /\ tasks = [t \in Tasks |-> IdleTask]
    /\ client = NoClient
    /\ ai = NoSend
    /\ wx = NoSend
    /\ teams = NoTeams
    /\ kdaCall = NoKda
    /\ \E m \in MetricRecords :
          \/ scoreCall = [NoScore EXCEPT !.metrics = m, !.args = 1]
          \/ \E r \in RoleArgs :
                scoreCall = [NoScore EXCEPT !.metrics = m, !.args = 2,
                                            !.role = r]

\* self._calculate_performance_score(metrics) and
\* self._calculate_performance_score(metrics, role): role has no default,
\* so the call that leaves it out raises TypeError
CalculateScore ==
    /\ ~scoreCall.returned
    /\ scoreCall' =
          [scoreCall EXCEPT
             !.returned = TRUE,
             !.result =
                 IF scoreCall.args = 1
                 THEN [raised |-> "TypeError", value |-> 0]
                 ELSE [raised |-> "-",
                       value |-> _calculate_performance_score(
                                     scoreCall.metrics, scoreCall.role)]]
    /\ UNCHANGED <<cacheVars, keyVars, fetchVars, matchVars, tasks, client,
                   ai, wx, teams, kdaCall>>

ScoreNext == CalculateScore

ScoreSpec == ScoreInit /\ [][ScoreNext]_vars

(***************************************************************************)
(* RaceSpec: two _make_request calls for the same endpoint and parameters, *)
(* made by two tasks of one event loop on one RiotAPI. A task runs from    *)
(* one await to the next without interruption: the cache operations have   *)
(* no await, session.get and asyncio.sleep are the suspension points.      *)
(***************************************************************************)
RaceRequest == [url |-> "u1", params |-> Dict(<<<<2, 2>>, <<1, 1>>>>)]

RaceKey == _get_cache_key(RaceRequest.url, RaceRequest.params)

\* the number of cache.set calls made so far
Writes == Cardinality({ t \in Tasks : tasks[t].wrote > 0 })

\* task t calls _make_request(endpoint, params) and runs to its first await
RaceCall(t) ==
    /\ tasks[t].pc = "idle"
    /\ \E res \in {get(files, RaceRequest.url, RaceRequest.params, now)} :
          /\ files' = res.files
          /\ order' = KeepPresent(order, res.files)
          /\ tasks' = [tasks EXCEPT ![t] =
                IF Truthy(res.result)
                THEN [@ EXCEPT !.pc = "done", !.result = res.result]
                ELSE [@ EXCEPT !.pc = IF InRange(0, MAX_RETRIES)
                                      THEN "attempt" ELSE "done",
                               !.retry_delay = 1]]
    /\ UNCHANGED <<now, default_ttl, max_cache_size, op, keyVars, fetchVars,
                   matchVars, client, ai, wx, teams,
                   kdaCall, scoreCall>>

\* task t issues self.session.get(...) and is suspended
RaceSend(t) ==
    /\ tasks[t].pc = "attempt"
    /\ tasks' = [tasks EXCEPT ![t] = [@ EXCEPT !.pc = "inflight",
                                               !.requests = @ + 1]]
    /\ UNCHANGED <<cacheVars, keyVars, fetchVars, matchVars, client, ai, wx,
                   teams,
                   kdaCall, scoreCall>>

\* the attempt of task t ends in outcome o and the task runs the try
\* statement up to the return or the asyncio.sleep
RaceReceive(t) ==
    /\ tasks[t].pc = "inflight"
    /\ \E o \in Outcomes :
       \E h \in {Handling(o)} :
          IF h = "success"
          THEN \E res \in {set(files, RaceRequest.url, o.body,
                               RaceRequest.params, None, now, default_ttl,
                               max_cache_size)}
                           \cup set_oserror(files, RaceRequest.url,
                                            RaceRequest.params, now) :
                  /\ files' = res.files
                  /\ order' = KeepPresent(
                                 IF res.written = files THEN order
                                 ELSE WriteOrder(order, res.key),
                                 res.files)
                  /\ tasks' = [tasks EXCEPT ![t] =
                        [@ EXCEPT !.pc = "done",
                                  !.result = Returned(o.body, res.result),
                                  !.wrote = Writes + 1,
                                  !.record = [created_at |-> now,
                                              ttl |-> TtlOrDefault(
                                                        None, default_ttl),
                                              data |-> JsonRoundTrip(
                                                         o.body)]]]
          ELSE IF h = "fail"
          THEN /\ tasks' = [tasks EXCEPT ![t] = [@ EXCEPT !.pc = "done",
                                                          !.result = "None"]]
               /\ UNCHANGED <<files, order>>
          ELSE /\ tasks' = [tasks EXCEPT ![t] = [@ EXCEPT !.pc = "sleeping"]]
               /\ UNCHANGED <<files, order>>
    /\ UNCHANGED <<now, default_ttl, max_cache_size, op, keyVars, fetchVars,
                   matchVars, client, ai, wx, teams,
                   kdaCall, scoreCall>>

\* asyncio.sleep of task t returns
RaceWake(t) ==
    /\ tasks[t].pc = "sleeping"
    /\ tasks' = [tasks EXCEPT ![t] =
          [@ EXCEPT !.retry_delay = Backoff(@),
                    !.retry = @ + 1,
                    !.pc = IF InRange(tasks[t].retry + 1, MAX_RETRIES)
                           THEN "attempt" ELSE "done",
                    !.result = "None"]]
    /\ UNCHANGED <<cacheVars, keyVars, fetchVars, matchVars, client, ai, wx,
                   teams,
                   kdaCall, scoreCall>>

RaceNext ==
    \/ \E t \in Tasks : RaceCall(t)
    \/ \E t \in Tasks : RaceSend(t)
    \/ \E t \in Tasks : RaceReceive(t)
    \/ \E t \in Tasks : RaceWake(t)
    \/ Elapse

RaceSpec == Init /\ [][RaceNext]_vars

(***************************************************************************)
(* Claims about the order of the requests of get_recent_matches (SeqSpec)  *)
(***************************************************************************)
\* the ids a listing payload names, in the order the payload lists them
Listed(v) ==
    CASE v = "ids1" -> <<1>>
      [] v = "ids3" -> <<1, 2, 3>>
      [] OTHER -> <<>>

\* the endpoint of the n-th lookup of a call whose earlier lookups are lg
NthEndpoint(lg) ==
    CASE Len(lg) = 0 -> SummonerUrl
      [] Len(lg) = 1 -> MatchIdsUrl
      [] OTHER -> IF Len(lg) - 1 \in 1..Len(Listed(lg[2].result))
                  THEN MatchUrl(Listed(lg[2].result)[Len(lg) - 1])
                  ELSE "none"

\* C22: during one get_recent_matches call at most one request is in
\* flight; a request is issued only while no other is in flight and only
\* for the lookup that follows the lookups that have returned, which come
\* in the order identity, listing, details in the order of the listing.
C22_OneRequestAtATime ==
    [][ /\ inFlight' <= 1
        /\ inFlight' > inFlight
           => /\ inFlight = 0
              /\ step \in Awaiting
              /\ call.url = NthEndpoint(log)
        /\ \A i \in 1..Len(log') :
              log'[i].lookup = IF i = 1 THEN "summoner"
                               ELSE IF i = 2 THEN "ids" ELSE "detail" ]_vars

\* the third detail request is in flight on a retry, after the first two
\* detail lookups returned, one of them after retries of its own
C22_Witness ==
    /\ step = "await_detail"
    /\ Len(log) = 4
    /\ log[3].requests >= 2
    /\ inFlight = 1
    /\ retry >= 1
    /\ call.url = MatchUrl(3)

(***************************************************************************)
(* Claims about the startup sweep (SweepSpec)                              *)
(***************************************************************************)
\* a get at time t returns the data of the record
Live(f, t) == f.kind = "ok" /\ Fresh(f, t)

\* C26: right after a CacheManager is constructed over an existing
\* directory no persisted entry is expired or unreadable, and every entry
\* that was live is kept unchanged.
C26_SweptOnConstruction ==
    [][ op'.name = "init"
        => /\ \A k \in Present(files') : Live(files'[k], now')
           /\ \A k \in Present(files) :
                 Live(files[k], now) => files'[k] = files[k] ]_vars

(***************************************************************************)
(* Claims about operations on different keys (CacheSpec)                   *)
(***************************************************************************)
\* the step is a get, set or remove of a key other than k
OnOtherKey(k) == op'.name \in {"get", "set", "remove"} /\ op'.key # k

\* the entry of k and the result of a get on it are as before the step
Untouched(k) ==
    /\ files'[k] = files[k]
    /\ \A r \in Requests :
          _get_cache_key(r.url, r.params) = k
          => get(files', r.url, r.params, now').result
             = get(files, r.url, r.params, now).result

\* C24 as stated: a get, set or remove of one key leaves the persisted
\* entry of every other key, and the result of a get on it, unchanged.
C24_NoInterference ==
    [][ \A k \in CacheKeys : OnOtherKey(k) => Untouched(k) ]_vars

\* C24, amended: a get, set or remove of one key leaves the persisted entry
\* of every other key, and the result of a get on it, unchanged, except
\* that a set which brings the number of entries above max_cache_size may
\* remove the whole entry of another key in its eviction pass.
C24_NoInterferenceButEviction ==
    [][ \A k \in CacheKeys :
          OnOtherKey(k)
          => \/ Untouched(k)
             \/ /\ op'.name = "set"
                /\ k \in op'.evicted
                /\ files'[k] = NoFile
                /\ Cardinality(Present(files) \cup {op'.key})
                     > max_cache_size ]_vars

\* a set of one key has just evicted the entry of another key, and has
\* left the entry of a third key as it was
C24_Witness ==
    /\ op.name = "set"
    /\ \E k \in op.evicted : k # op.key
    /\ \E k \in Present(files) : k # op.key

(***************************************************************************)
(* Claims about cancellation (CancelSpec)                                  *)
(***************************************************************************)
\* the caller has cancelled the running call
Cancelled ==
    outcomes # <<>> /\ outcomes[Len(outcomes)].error = "CancelledError"

\* C25: a call cancelled while it waits on the network or sleeps stops
\* there: the cancellation leaves the call as a failure, neither returned
\* as None nor retried, and the call issues no request and no sleep
\* afterwards.
C25_CancellationPropagates ==
    [][ /\ ( ~Cancelled /\ Cancelled' )
           => /\ pc \in {"inflight", "sleeping"}
              /\ pc' = "cancelled"
              /\ inFlight' = 0
              /\ requests' = requests
              /\ sleeps' = sleeps
        /\ Cancelled
           => /\ pc' = "cancelled"
              /\ requests' = requests
              /\ sleeps' = sleeps ]_vars

\* a call was cancelled during its second sleep, with attempts remaining
C25_Witness ==
    /\ pc = "cancelled"
    /\ Cancelled
    /\ requests = 2
    /\ Len(sleeps) = 2
    /\ call.max_retries = MaxRetries

(***************************************************************************)
(* Claims about the network sessions (SessionSpec)                         *)
(***************************************************************************)
\* C27: once the scope of the client has ended every session the client
\* opened, in __aenter__ or lazily in _make_request, is closed, and no
\* request is issued on a closed session.
C27_SessionsAreClosed ==
    /\ client.scope = "ended"
       => \A i \in 1..Len(client.sessions) : client.sessions[i] = "closed"
    /\ \A i \in 1..Len(client.sent) :
          client.sent[i].requests > 0 => client.sent[i].session = "open"

(***************************************************************************)
(* Claims about AIAnalyzer._send_ai_request (AiSpec)                       *)
(***************************************************************************)
\* the outcomes after which the request is to be sent again
RetryableOutcome(o) ==
    \/ o.kind = "raised" /\ o.error \in {"ClientConnectionError", "ClientError"}
    \/ o.kind = "response" /\ o.status \in {429, 500, 502, 503, 504}

\* C28: after a 429 response, a 500/502/503/504 response or a network error
\* _send_ai_request waits and sends the request again, up to
\* max_retries + 1 attempts in total: a call that has ended with such an
\* outcome as its last has returned None after max_retries + 1 requests,
\* with a sleep after each but the last.
C28_AiRequestIsRetried ==
    ( /\ ai.pc \in {"done", "raised"}
      /\ ai.outcomes # <<>>
      /\ RetryableOutcome(ai.outcomes[Len(ai.outcomes)]) )
    => /\ ai.pc = "done"
       /\ ai.result = "None"
       /\ ai.requests = ai.max_retries + 1
       /\ Len(ai.sleeps) >= ai.max_retries

(***************************************************************************)
(* Claims about WeChatSender._send_to_wechat (WeChatSpec)                  *)
(***************************************************************************)
\* the outcomes after which the message is to be posted again
RetryablePost(o) ==
    \/ o.kind = "raised" /\ o.error \in {"ClientConnectionError", "ClientError"}
    \/ o.kind = "response" /\ o.status \in {500, 502, 503, 504}

\* C29: after a 500/502/503/504 response or a network error _send_to_wechat
\* waits and posts again, up to max_retries + 1 attempts: a call that has
\* ended with such an outcome as its last has made max_retries + 1
\* requests. The result is True exactly when some attempt got status 200
\* with errcode 0; send_analysis_result returns it and never raises.
C29_WeChatPostIsRetried ==
    wx.pc \in {"done", "raised"}
    => /\ ( wx.outcomes # <<>>
            /\ RetryablePost(wx.outcomes[Len(wx.outcomes)]) )
          => /\ wx.requests = wx.max_retries + 1
             /\ Len(wx.sleeps) >= wx.max_retries
       /\ ( \E i \in 1..Len(wx.outcomes) :
               /\ wx.outcomes[i].kind = "response"
               /\ wx.outcomes[i].status = 200
               /\ wx.outcomes[i].body = "errcode0" )
          <=> ( wx.result = "True" )
       /\ wx.caller = "send_analysis_result"
          => wx.pc = "done" /\ wx.returned \in {"True", "False"}

(***************************************************************************)
(* Claims about GameAnalyzer._analyze_teams (TeamsSpec)                    *)
(***************************************************************************)
\* the participants of the list whose teamId is t
WithTeamId(ps, t) == SelectSeq(ps, LAMBDA p : p.hasTeamId /\ p.teamId = t)

\* the participants of the list counted for team t: those whose teamId is
\* t and, for t = 100, those without a teamId
CountedFor(ps, t) ==
    SelectSeq(ps, LAMBDA p : \/ p.hasTeamId /\ p.teamId = t
                             \/ ~p.hasTeamId /\ t = 100)

\* C30 as stated: _analyze_teams returns both teams, blue for teamId 100 and red for
\* teamId 200; the total_kills of a team is the sum of the kills of exactly
\* the participants with that teamId, and its win flag is true if and only
\* if one of those participants has win true.
C30_TeamTotals ==
    teams.team_stats # <<>>
    => /\ DOMAIN teams.team_stats = {"blue", "red"}
       /\ teams.team_stats["blue"].team_id = 100
       /\ teams.team_stats["red"].team_id = 200
       /\ \A name \in {"blue", "red"} :
             LET st == teams.team_stats[name]
                 ps == WithTeamId(teams.participants, st.team_id)
             IN  /\ st.total_kills = SumKills(ps)
                 /\ st.win <=> \E i \in 1..Len(ps) : ps[i].win

\* C30, amended: _analyze_teams returns both teams, blue for teamId 100 and
\* red for teamId 200; the total_kills of a team is the sum of the kills of
\* exactly the participants counted for it, which are those with that
\* teamId and, for blue, those without any teamId; its win flag is true if
\* and only if one of those participants has win true. Participants with
\* another teamId are counted for no team.
C30_TeamTotalsWithDefault ==
    teams.team_stats # <<>>
    => /\ DOMAIN teams.team_stats = {"blue", "red"}
       /\ teams.team_stats["blue"].team_id = 100
       /\ teams.team_stats["red"].team_id = 200
       /\ \A name \in {"blue", "red"} :
             LET st == teams.team_stats[name]
                 ps == CountedFor(teams.participants, st.team_id)
             IN  /\ st.total_kills = SumKills(ps)
                 /\ st.win <=> \E i \in 1..Len(ps) : ps[i].win

\* analysed: a winner without teamId who scored, a red participant who
\* scored and lost, and a participant of neither team
C30_Witness ==
    /\ teams.team_stats # <<>>
    /\ Len(teams.participants) = 3
    /\ \E i, j, k \in 1..3 :
          /\ ~teams.participants[i].hasTeamId
          /\ teams.participants[i].kills = 1
          /\ teams.participants[i].win
          /\ teams.participants[j].hasTeamId
          /\ teams.participants[j].teamId = 200
          /\ teams.participants[j].kills = 1
          /\ ~teams.participants[j].win
          /\ teams.participants[k].hasTeamId
          /\ teams.participants[k].teamId = 300
    /\ teams.team_stats["blue"].total_kills = 1
    /\ teams.team_stats["blue"].win
    /\ teams.team_stats["red"].total_kills = 1
    /\ ~teams.team_stats["red"].win

(***************************************************************************)
(* Claims about GameAnalyzer._calculate_kda (KdaSpec)                      *)
(***************************************************************************)
\* the distance between two integers
Dist(a, b) == IF a >= b THEN a - b ELSE b - a

\* C31: _calculate_kda(kills, deaths, assists) returns kills + assists when
\* deaths is 0 and otherwise (kills + assists) / deaths rounded to two
\* decimals, that is the hundredth nearest to the quotient; (10, 0, 5)
\* gives 15 and (10, 5, 15) gives 5.0.
C31_KdaValue ==
    kdaCall.returned =>
        LET n == kdaCall.kills + kdaCall.assists
            d == kdaCall.deaths
            r == kdaCall.result
        IN  /\ d = 0 => r = 100 * n
            /\ d > 0 => 2 * Dist(100 * n, r * d) <= d
            /\ (kdaCall.kills = 10 /\ d = 0 /\ kdaCall.assists = 5)
                  => r = 1500
            /\ (kdaCall.kills = 10 /\ d = 5 /\ kdaCall.assists = 15)
                  => r = 500

\* C31 witness: a KDA that had to be rounded has been returned
C31_Witness ==
    /\ kdaCall.returned
    /\ kdaCall.deaths > 0
    /\ (100 * (kdaCall.kills + kdaCall.assists)) % kdaCall.deaths # 0
    /\ 2 * ((100 * (kdaCall.kills + kdaCall.assists)) % kdaCall.deaths)
          > kdaCall.deaths

(***************************************************************************)
(* Claims about GameAnalyzer._calculate_performance_score (ScoreSpec)      *)
(***************************************************************************)
\* the two records of tests/game_analyzer.py
PerfectRecord == [k \in TestKeys |-> TopOf[k]]
AverageRecord == [k \in TestKeys |-> AverageOf[k]]

\* C32: _calculate_performance_score called with the metrics record alone
\* returns a value: 100 for the record whose metrics are all at the top
\* level, and a value between 50 and 70 for the average record.
C32_ScoreOfMetricsAlone ==
    (scoreCall.returned /\ scoreCall.args = 1) =>
        /\ scoreCall.result.raised = "-"
        /\ scoreCall.metrics = PerfectRecord
              => scoreCall.result.value = 10000
        /\ scoreCall.metrics = AverageRecord
              => scoreCall.result.value \in 5000..7000

(***************************************************************************)
(* Claims about the order of the steps of _make_request (Spec)             *)
(***************************************************************************)
\* the latest attempt of the call got a success response
FetchSucceeded == outcomes # <<>> /\ outcomes[Len(outcomes)].class = "success"

\* the cache is written only by an attempt that got a success response, at
\* most once in a call, and the call returns that response's payload right
\* after the write
WriteFollowsSuccess ==
    /\ cacheWrites <= 1
    /\ cacheWrites = 1 => ( FetchSucceeded /\ pc = "done" )
    /\ ( FetchSucceeded /\ pc = "done" )
          => ( cacheWrites = 1
               /\ result = outcomes[Len(outcomes)].body )

\* C33: in every _make_request call the steps occur in the order cache
\* read, network attempts only on a miss, one cache write only after a
\* success response, return: no request is issued when the read found a
\* live entry, the cache is never written before a success response, and a
\* successful fetch has written the cache before its payload is returned.
C33_ReadFetchWriteReturn ==
    /\ requests > 0 => ~call.live
    /\ WriteFollowsSuccess

(***************************************************************************)
(* Claims about the backoff delay of _make_request (BackoffSpec)           *)
(***************************************************************************)
\* C34: within one call the backoff delay starts at 1 second, doubles after
\* each retryable outcome and never exceeds 30 seconds: an attempt made
\* after k retryable outcomes runs with the delay min(2^k, 30), which is
\* what the call sleeps when the attempt's outcome carries no hint; and no
\* sleep of the call, hinted or not, is longer than 30 seconds.
C34_DelayDoublesUpToTheCeiling ==
    /\ pc \in {"attempt", "inflight"}
          => retry_delay = Min(Pow2(Len(outcomes)), 30)
    /\ retry_delay <= 30
    /\ \A i \in 1..Len(sleeps) :
          /\ sleeps[i] <= 30
          /\ ~SleepHinted(i) => sleeps[i] = Min(Pow2(i - 1), 30)

\* C34 witness: the sixth attempt of a call ran with the delay at its
\* ceiling, 30 and not 32, and the call slept it; an earlier sleep was a
\* hint of 40 seconds cut to 30
C34_Witness ==
    /\ Len(sleeps) = 6
    /\ ~SleepHinted(6) /\ sleeps[6] = 30
    /\ ~SleepHinted(5) /\ sleeps[5] = 16
    /\ SleepHinted(2) /\ sleeps[2] = 30

(***************************************************************************)
(* Claims about the sleeps of an exhausted call (Spec)                     *)
(***************************************************************************)
\* the call returned None because every one of its attempts ended in a
\* retryable outcome
Exhausted ==
    /\ pc = "done"
    /\ requests = call.max_retries + 1
    /\ Len(outcomes) = requests
    /\ \A i \in 1..Len(outcomes) :
          outcomes[i].class \in {"429", "5xx", "network", "badbody"}

\* C35: every backoff sleep of a call is followed by another network attempt
\* of the call: the call does not sleep after its final attempt, and a call
\* that exhausts its attempts has slept max_retries times, once fewer than
\* it issued requests.
C35_NoSleepAfterTheFinalAttempt ==
    /\ pc = "sleeping" => requests <= call.max_retries
    /\ Len(sleeps) <= requests
    /\ Exhausted => ( Len(sleeps) = call.max_retries
                      /\ Len(sleeps) = requests - 1 )

(***************************************************************************)
(* Claims about the cache after a call that returned None (PayloadSpec)    *)
(***************************************************************************)
\* the step is the cache read of a new call and removes nothing, or only
\* the record of the requested key, which was expired or not parsable
ReadRemovesOnlyStale ==
    \/ files' = files
    \/ \E k \in DOMAIN files :
          /\ k = _get_cache_key(call'.url, call'.params)
          /\ files' = [files EXCEPT ![k] = NoFile]
          /\ \/ files[k].kind = "partial"
             \/ now - files[k].created_at >= files[k].ttl

\* the call has returned None and its latest attempt did not get a success
\* response whose body is the document null
ReturnedFailure ==
    /\ pc = "done"
    /\ result = "None"
    /\ ~( outcomes # <<>>
          /\ outcomes[Len(outcomes)].class = "success"
          /\ outcomes[Len(outcomes)].body = "None" )

\* C36: a call that returns None has not written to the cache.
C36_AbsentResultNeverWrites ==
    ( pc = "done" /\ result = "None" ) => cacheWrites = 0

\* C36 as amended: a call that returns None for a failure (client error,
\* exhausted retries, unexpected status, exception) has made no cache write,
\* and no step of it changed the persisted entries but the initial read,
\* which removes at most the expired or corrupt record of the requested
\* key; a success response whose body is null is written and returned as
\* None.
C36_FailuresAreNotCached ==
    [][ /\ ReturnedFailure' => cacheWrites' = 0
        /\ pc \in {"idle", "done"} => ReadRemovesOnlyStale
        /\ ( pc \notin {"idle", "done"} /\ files' # files )
              => ( pc = "inflight" /\ cacheWrites' = 1
                   /\ outcomes'[Len(outcomes')].class = "success" ) ]_vars

\* C36 witness: a call made while the cache held a live record has
\* returned None after a client error, the record still in place
C36_Witness ==
    /\ ReturnedFailure
    /\ outcomes # <<>> /\ outcomes[Len(outcomes)].class = "4xx"
    /\ cacheWrites = 0
    /\ \E k \in DOMAIN files :
          files[k].kind = "ok" /\ now - files[k].created_at < files[k].ttl

(***************************************************************************)
(* Claims about a set that fails and about a set's own eviction pass       *)
(* (CacheSpec)                                                             *)
(***************************************************************************)
\* C37: when set returns failure the store is unchanged: an entry stored
\* under the key before is intact and still returned by get, and no partial
\* or corrupt record is left under the key.
C37_FailedSetLeavesStoreUnchanged ==
    [][ ( op'.name = "set" /\ op'.result = "False" )
        => /\ files' = files
           /\ files'[op'.key].kind # "partial" ]_vars

\* C39: whenever max_cache_size >= 1, the entry just written by a successful
\* set survives that set's own eviction pass, which removes only entries
\* written earlier, also when several entries carry the same write
\* timestamp.
C39_WrittenEntrySurvivesEviction ==
    [][ ( op'.name = "set" /\ op'.result = "True" /\ op' # op
          /\ max_cache_size >= 1 )
        => /\ files'[op'.key].kind = "ok"
           /\ op'.key \notin op'.evicted
           /\ op'.evicted \subseteq Present(files) ]_vars

(***************************************************************************)
(* Claims about the fetch of an expired entry (Spec)                       *)
(***************************************************************************)
\* the step is the start of a _make_request call: its cache read, up to the
\* return of the cached value or the entry into the loop
CallStep == pc \in {"idle", "done"} /\ now' = now /\ pc' # "idle"

\* the step is the end of an attempt in a success response that cache.set
\* stored
StoreStep ==
    /\ pc = "inflight" /\ pc' = "done"
    /\ outcomes'[Len(outcomes')].class = "success"
    /\ outcomes'[Len(outcomes')].stored = "True"

\* a call that finds the record of its key expired removes it and goes to
\* the network, and the record a success response is stored in carries the
\* time of the store and the payload
ExpiredIsRefetched ==
    LET k == _get_cache_key(call'.url, call'.params)
    IN  /\ ( CallStep /\ files[k].kind = "ok"
             /\ now - files[k].created_at >= files[k].ttl )
              => ( files'[k].kind = "none" /\ pc' = "attempt"
                   /\ requests' = 0 )
        /\ StoreStep
              => ( files'[k].kind = "ok" /\ files'[k].created_at = now
                   /\ files'[k].data = outcomes'[Len(outcomes')].body )

\* the call that follows a call whose fetch was stored, for the same
\* request and within the ttl of the record, is a cache hit
RepeatIsHit ==
    LET k == _get_cache_key(call'.url, call'.params)
    IN  ( CallStep /\ pc = "done" /\ FetchSucceeded
          /\ outcomes[Len(outcomes)].stored = "True"
          /\ call'.url = call.url /\ call'.params = call.params
          /\ files[k].kind = "ok"
          /\ now - files[k].created_at < files[k].ttl )
        => ( pc' = "done" /\ requests' = 0 /\ result' = files[k].data
             /\ files' = files )

\* C38: when the cached entry of a request has expired, the next
\* _make_request for it removes the stale record, goes to the network and on
\* success stores a new record whose created_at is the time of this fetch; a
\* fetch repeated within the ttl after that is a cache hit with no network
\* request.
C38_ExpiredEntryIsRefetchedThenServed ==
    [][ ExpiredIsRefetched /\ RepeatIsHit ]_vars

(***************************************************************************)
(* Claims about interleaved calls (RaceSpec)                               *)
(***************************************************************************)
\* both tasks missed, called the network, reached cache.set and returned,
\* task t after task u
BothWrote(t, u) ==
    /\ tasks[t].pc = "done"
    /\ tasks[u].pc = "done"
    /\ tasks[u].wrote > 0
    /\ tasks[t].wrote > tasks[u].wrote

\* C23: when two fetches for the same key run interleaved and both miss,
\* call the network and write, the cache afterwards holds one complete
\* record {created_at, ttl, data}, equal to what the later writer wrote.
C23_LaterWriterWins ==
    \A t, u \in Tasks :
       BothWrote(t, u)
       => /\ files[RaceKey].kind = "ok"
          /\ files[RaceKey].created_at = tasks[t].record.created_at
          /\ files[RaceKey].ttl = tasks[t].record.ttl
          /\ files[RaceKey].data = tasks[t].record.data

====
